---------------------------- MODULE Spec2Model ----------------------------
(***************************************************************************)
(* Model of the Windows input-event recorder                               *)
(* (workflow-recorder/src/recorder/windows.rs): recorder construction and  *)
(* hook installation, the keyboard and mouse low-level hook callbacks, the *)
(* thread-local registration slots they read, the process-wide Move        *)
(* counter, the unbounded delivery channel and stop().                     *)
(*                                                                         *)
(* Options are sequences: None is <<>> and Some(x) is <<x>>.  A slot that  *)
(* holds a channel sender or a shared cell holds the id of the recorder    *)
(* whose channel or cell it is, 0 when the slot is empty.                  *)
(***************************************************************************)
EXTENDS Integers, Sequences, FiniteSets, TLC

\* ------------------------------------------------------------- bounds
MaxRecorders == 2
MaxEvents == 2
MaxMoves == 21
SomeMoves == 11
FewMoves == 2
WideEvents == 1
MaxPopups == 2
MaxQuits == 2
MaxWalk == 2
MaxElements == 3
MaxPathSteps == 5
MovesBeforeWrap == 16

\* ---------------------------------------------------------- constants
HC_ACTION == 0
MOVE_SAMPLE == 10
VK_SHIFT == 16
VK_CONTROL == 17
VK_MENU == 18
VK_LWIN == 91
VK_RWIN == 92
FLAG_SHIFT == 1
FLAG_CTRL == 8
FLAG_ALT == 32

None == <<>>
Some(x) == <<x>>

Recorders == 1..MaxRecorders

\* Inputs the environment (the OS) can hand to the callbacks.
HookCodes == {-1, HC_ACTION, 3}
MouseMessages ==
    {"WM_LBUTTONDOWN", "WM_LBUTTONUP", "WM_RBUTTONDOWN", "WM_RBUTTONUP",
     "WM_MBUTTONDOWN", "WM_MBUTTONUP", "WM_MOUSEMOVE", "WM_MOUSEWHEEL",
     "WM_XBUTTONDOWN"}
KeyMessages == {"WM_KEYDOWN", "WM_KEYUP", "WM_SYSKEYDOWN"}
Positions == {<<0, 0>>, <<3, 4>>}
Configs ==
    [record_keyboard : BOOLEAN, record_mouse : BOOLEAN,
     capture_ui_elements : BOOLEAN]

VARIABLES
    recorder,      \* [Recorders -> WindowsRecorder]: the recorder objects
    hooks,         \* hooks the OS currently holds: <<recorder, kind>>
    tls,           \* the thread-local registration slots of the two callbacks
    MOVE_COUNTER,  \* static mut MOVE_COUNTER of mouse_hook_proc
    queue,         \* per channel: events sent and not yet received
    received,      \* per channel: events the consumer has received, in order
    rxAlive,       \* per channel: the consumer still holds the receiver
    sentLog,       \* per channel: every event a send accepted, in send order
    moveOrdinal,   \* number of raw Move invocations (code = HC_ACTION) so far
    forwardedMoves,\* ordinals of the Move invocations that reached a send
    last,          \* what the most recent operation did
    desktop,       \* the Desktop object: its state and its visualizer
    dlast,         \* what the most recent Desktop call did
    GLOBAL_RENDERER, \* static mut GLOBAL_RENDERER of the overlay window
    painted,       \* what the window procedure drew on its last WM_PAINT
    present,       \* the elements the accessibility tree holds now
    loc,           \* the locator call in progress, or the last one made
    hier           \* the hierarchy-path reconstruction in progress

vars ==
    <<recorder, hooks, tls, MOVE_COUNTER, queue, received, rxAlive, sentLog,
      moveOrdinal, forwardedMoves, last, desktop, dlast, GLOBAL_RENDERER,
      painted, present, loc, hier>>

RecorderVars ==
    <<recorder, hooks, tls, MOVE_COUNTER, queue, received, rxAlive, sentLog,
      moveOrdinal, forwardedMoves, last>>
DesktopVars == <<desktop, dlast, GLOBAL_RENDERER, painted>>
LocatorVars == <<present, loc>>
HierarchyVars == <<hier>>

\* ------------------------------------------------------- bit decoding
\* (flags & mask) != 0 for a one-bit mask
BitSet(flags, mask) == (flags \div mask) % 2 = 1


\* ------------------------------------------------------------ construction
NoRecorder ==
    [state |-> "absent",
     config |-> [record_keyboard |-> FALSE, record_mouse |-> FALSE,
                 capture_ui_elements |-> FALSE],
     keyboard_hook |-> None, mouse_hook |-> None,
     last_mouse_pos |-> None]

EmptySlots ==
    [KB_EVENT_TX |-> 0, EVENT_TX |-> 0, AUTOMATION |-> 0, LAST_MOUSE_POS |-> 0,
     CAPTURE_UI_ELEMENTS |-> FALSE]

\* The part of the world a construction acts on: the recorder's two handle
\* fields, the OS hook table, the thread-local slots and the error flag of `?`.
World(t, h) ==
    [keyboard_hook |-> None, mouse_hook |-> None, hooks |-> h, tls |-> t,
     err |-> FALSE]

\* setup_keyboard_hook: the sender goes into the slot, then the hook is set;
\* installed is the outcome of SetWindowsHookExW (a null handle when FALSE).
setup_keyboard_hook(w, r, installed) ==
    LET w1 == [w EXCEPT !.tls.KB_EVENT_TX = r]
    IN  IF ~installed
        THEN [w1 EXCEPT !.err = TRUE]
        ELSE [w1 EXCEPT !.hooks = @ \cup {<<r, "keyboard">>},
                        !.keyboard_hook = Some(<<r, "keyboard">>)]

\* setup_mouse_hook: the four slots are written, then the hook is set.
setup_mouse_hook(w, r, cfg, installed) ==
    LET w1 == [w EXCEPT !.tls.EVENT_TX = r,
                        !.tls.AUTOMATION = r,
                        !.tls.LAST_MOUSE_POS = r,
                        !.tls.CAPTURE_UI_ELEMENTS = cfg.capture_ui_elements]
    IN  IF ~installed
        THEN [w1 EXCEPT !.err = TRUE]
        ELSE [w1 EXCEPT !.hooks = @ \cup {<<r, "mouse">>},
                        !.mouse_hook = Some(<<r, "mouse">>)]

\* Mutant: the mouse hook is set up whatever record_mouse says.
setup_hooks_Both(w, r, cfg, kbInstalled, mouseInstalled) ==
    LET w1 == IF cfg.record_keyboard
              THEN setup_keyboard_hook(w, r, kbInstalled)
              ELSE w
    IN  IF w1.err THEN w1 ELSE setup_mouse_hook(w1, r, cfg, mouseInstalled)

\* setup_hooks: keyboard first, then mouse, each only if enabled; `?` returns
\* at the first failure and undoes nothing.
setup_hooks(w, r, cfg, kbInstalled, mouseInstalled) ==
    LET w1 == IF cfg.record_keyboard
              THEN setup_keyboard_hook(w, r, kbInstalled)
              ELSE w
    IN  IF w1.err
        THEN w1
        ELSE IF cfg.record_mouse
             THEN setup_mouse_hook(w1, r, cfg, mouseInstalled)
             ELSE w1

Untouched ==
    UNCHANGED <<MOVE_COUNTER, queue, received, rxAlive, sentLog, moveOrdinal,
                forwardedMoves, DesktopVars, LocatorVars, HierarchyVars>>

NoCall ==
    [op |-> "none", rec |-> 0, action |-> FALSE, msg |-> "", pt |-> None,
     flags |-> None, found |-> None, sends |-> <<>>, lookups |-> 0,
     next |-> 0,
     panicked |-> FALSE, ordinal |-> 0, result |-> "", warns |-> 0,
     again |-> FALSE, pending |-> 0, slotEmpty |-> FALSE, decoded |-> FALSE,
     cell |-> 0, key |-> None, attempts |-> 0]

\* WindowsRecorder::new(config, event_tx) for recorder r, on the one thread
\* that constructs recorders.  automationOk, kbInstalled and mouseInstalled
\* are the outcomes of UIAutomation::new and of the two SetWindowsHookExW.
\* A failed construction drops the recorder object; nothing is uninstalled.
New(r, cfg, automationOk, kbInstalled, mouseInstalled) ==
    /\ recorder[r].state = "absent"
    /\ \A q \in Recorders : q < r => recorder[q].state # "absent"
    /\ IF ~automationOk
       THEN /\ recorder' = [recorder EXCEPT ![r] =
                               [NoRecorder EXCEPT !.state = "failed"]]
            /\ UNCHANGED <<hooks, tls>>
       ELSE LET w == setup_hooks(World(tls, hooks), r, cfg,
                                 kbInstalled, mouseInstalled)
            IN  /\ recorder' = [recorder EXCEPT ![r] =
                       IF w.err
                       THEN [NoRecorder EXCEPT !.state = "failed"]
                       ELSE [NoRecorder EXCEPT
                                !.state = "live", !.config = cfg,
                                !.keyboard_hook = w.keyboard_hook,
                                !.mouse_hook = w.mouse_hook]]
                /\ hooks' = w.hooks
                /\ tls' = w.tls
    /\ last' = [NoCall EXCEPT !.op = "new", !.rec = r,
                   !.result = IF recorder'[r].state = "live"
                              THEN "Ok" ELSE "InitializationError"]
    /\ Untouched

\* ------------------------------------------------------------ callbacks
\* What one callback invocation did: how many times CallNextHookEx was
\* called, whether it panicked, the sends it made (<<channel, event>>), the
\* new Move counter, the cell it wrote the position to (0: none) and the
\* number of element_at_point lookups; decoded tells whether the payload
\* behind lparam was dereferenced.
Effects ==
    [next |-> 0, panicked |-> FALSE, sends |-> <<>>, counter |-> MOVE_COUNTER,
     cell |-> 0, lookups |-> 0, decoded |-> FALSE]

\* let hook_struct = *(lparam.0 as *const ...)
Decode(e) == [e EXCEPT !.decoded = TRUE]

\* return CallNextHookEx(None, code, wparam, lparam)
CallNextHookEx(e) == [e EXCEPT !.next = @ + 1]

\* Mutant: the modifiers are read from the flag bits alone.
KeyboardEvent_FlagsOnly(key_code, is_key_down, flags) ==
    [class |-> "Keyboard",
     key_code |-> key_code,
     is_key_down |-> is_key_down,
     ctrl_pressed |-> BitSet(flags, FLAG_CTRL),
     alt_pressed |-> BitSet(flags, FLAG_ALT),
     shift_pressed |-> BitSet(flags, FLAG_SHIFT),
     win_pressed |-> key_code = VK_LWIN \/ key_code = VK_RWIN]


KeyboardEvent(key_code, is_key_down, flags) ==
    [class |-> "Keyboard",
     key_code |-> key_code,
     is_key_down |-> is_key_down,
     ctrl_pressed |-> BitSet(flags, FLAG_CTRL) \/ key_code = VK_CONTROL,
     alt_pressed |-> BitSet(flags, FLAG_ALT) \/ key_code = VK_MENU,
     shift_pressed |-> BitSet(flags, FLAG_SHIFT) \/ key_code = VK_SHIFT,
     win_pressed |-> key_code = VK_LWIN \/ key_code = VK_RWIN]

\* The send step of keyboard_hook_proc: the sender is taken from the slot
\* with unwrap(), so an empty slot panics before anything is sent.  slots
\* are the thread-local slots of the thread the callback runs on.
KeyboardSends(slots, e, ev) ==
    IF slots.KB_EVENT_TX = 0
    THEN [e EXCEPT !.panicked = TRUE]
    ELSE [e EXCEPT !.sends = << <<slots.KB_EVENT_TX, ev>> >>]

\* Mutant: an event is forwarded for every message.
keyboard_hook_proc_AnyMessage(slots, code, wparam, key_code, flags) ==
    IF code < 0 \/ code # HC_ACTION
    THEN CallNextHookEx(Effects)
    ELSE LET e == KeyboardSends(slots, Decode(Effects),
                      KeyboardEvent(key_code, wparam = "WM_KEYDOWN", flags))
         IN  IF e.panicked THEN e ELSE CallNextHookEx(e)

\* keyboard_hook_proc(code, wparam, lparam -> {vkCode, flags}).
keyboard_hook_proc(slots, code, wparam, key_code, flags) ==
    IF code < 0 \/ code # HC_ACTION
    THEN CallNextHookEx(Effects)
    ELSE LET e0 == Decode(Effects)
             is_key_down == wparam = "WM_KEYDOWN"
             is_key_up == wparam = "WM_KEYUP"
         IN  IF is_key_down \/ is_key_up
             THEN LET e == KeyboardSends(slots, e0,
                               KeyboardEvent(key_code, is_key_down, flags))
                  IN  IF e.panicked THEN e ELSE CallNextHookEx(e)
             ELSE CallNextHookEx(e0)

\* The match on wparam: Some(<<event_type, button>>), None for `_`.
MouseDecode(wparam) ==
    CASE wparam = "WM_LBUTTONDOWN" -> Some(<<"Down", "Left">>)
      [] wparam = "WM_LBUTTONUP" -> Some(<<"Up", "Left">>)
      [] wparam = "WM_RBUTTONDOWN" -> Some(<<"Down", "Right">>)
      [] wparam = "WM_RBUTTONUP" -> Some(<<"Up", "Right">>)
      [] wparam = "WM_MBUTTONDOWN" -> Some(<<"Down", "Middle">>)
      [] wparam = "WM_MBUTTONUP" -> Some(<<"Up", "Middle">>)
      [] wparam = "WM_MOUSEMOVE" -> Some(<<"Move", "Left">>)
      [] wparam = "WM_MOUSEWHEEL" -> Some(<<"Wheel", "Middle">>)
      [] OTHER -> None

\* Mutant: every event kind is sampled.
IsSampled_All(event_type) == TRUE

\* The event kinds the sampling applies to.
IsSampled(event_type) == event_type = "Move"

\* Mutant: the first of every ten Moves is kept instead of the tenth.
MoveSkipped_First(counter) == counter % MOVE_SAMPLE # 1

\* MOVE_COUNTER is a u32.  The model holds its 32 bits read as a
\* two's-complement integer: a value v below 2^31 is v itself, a value from
\* 2^31 on is v - 2^32, so that 2^32 - 1 is -1.
\* 2^32 % n, from 2^16 % n.
Pow32Mod(n) == ((65536 % n) * (65536 % n)) % n

\* counter % n on the u32 value.
U32Mod(counter, n) ==
    IF counter >= 0 THEN counter % n
    ELSE ((counter % n) + Pow32Mod(n)) % n

\* The counter holds u32::MAX: `+= 1` overflows.
Overflows(counter) == counter = -1

\* counter + 1 on 32 bits: u32::MAX wraps to 0.
WrappingIncrement(counter) ==
    IF Overflows(counter) THEN 0
    ELSE IF counter = 2147483647 THEN -2147483647 - 1
    ELSE counter + 1

\* `MOVE_COUNTER += 1`: with overflow checks (the debug profile) the
\* addition panics at u32::MAX and stores nothing; without them (the
\* release profile) it wraps.
Increment(e, checked) ==
    IF Overflows(e.counter) /\ checked
    THEN [e EXCEPT !.panicked = TRUE]
    ELSE [e EXCEPT !.counter = WrappingIncrement(@)]

\* The decimation test on the incremented counter: TRUE when the Move is
\* skipped.
MoveSkipped(counter) == U32Mod(counter, MOVE_SAMPLE) # 0

\* Mutant: a skipped Move returns without calling the next hook.
ReturnSkipped_Absorb(e) == e

\* The early return of a skipped Move.
ReturnSkipped(e) == CallNextHookEx(e)

\* get_ui_element_at_point: a snapshot of the element at the point when
\* element_from_point succeeds (found), None when it fails.
get_ui_element_at_point(pt, found) ==
    IF found THEN Some([point |-> pt]) ELSE None

\* Mutant: the lookup is made for every event kind.
WantsLookup_AnyKind(event_type) == tls.CAPTURE_UI_ELEMENTS

\* The guard of the lookup.
WantsLookup(event_type) ==
    tls.CAPTURE_UI_ELEMENTS /\ (event_type = "Down" \/ event_type = "Up")

\* The lookup step of mouse_hook_proc: <<ui_element, number of lookups>>.
Correlate(event_type, pt, found) ==
    IF WantsLookup(event_type)
    THEN IF tls.AUTOMATION # 0
         THEN <<get_ui_element_at_point(pt, found), 1>>
         ELSE <<None, 0>>
    ELSE <<None, 0>>

MouseEvent(event_type, button, pt, ui_element) ==
    [class |-> "Mouse", event_type |-> event_type, button |-> button,
     position |-> pt, ui_element |-> ui_element]

\* Mutant: a click whose lookup found nothing is not sent.
MouseSends_NeedsElement(ev) ==
    IF tls.EVENT_TX # 0
       /\ ~(WantsLookup(ev.event_type) /\ ev.ui_element = None)
    THEN << <<tls.EVENT_TX, ev>> >>
    ELSE <<>>

\* Mutant: the event is sent twice.
MouseSends_Twice(ev) ==
    IF tls.EVENT_TX # 0
    THEN << <<tls.EVENT_TX, ev>>, <<tls.EVENT_TX, ev>> >>
    ELSE <<>>

\* The send step of mouse_hook_proc: guarded by the slot.
MouseSends(ev) ==
    IF tls.EVENT_TX # 0 THEN << <<tls.EVENT_TX, ev>> >> ELSE <<>>

\* mouse_hook_proc(code, wparam, lparam -> pt); found is the outcome of
\* element_from_point should the callback ask.  The counter is a u32 that
\* starts at 0 and is only ever incremented here.
\* checked: whether the build checks integer overflow.
mouse_hook_proc(code, wparam, pt, found, checked) ==
    IF code < 0 \/ code # HC_ACTION
    THEN CallNextHookEx(Effects)
    ELSE LET e0 == [Decode(Effects) EXCEPT !.cell = tls.LAST_MOUSE_POS]
             d == MouseDecode(wparam)
         IN  IF d = None
             THEN CallNextHookEx(e0)
             ELSE LET event_type == d[1][1]
                      button == d[1][2]
                      e1 == IF IsSampled(event_type)
                            THEN Increment(e0, checked)
                            ELSE e0
                  IN  IF e1.panicked
                      THEN e1
                      ELSE IF IsSampled(event_type) /\ MoveSkipped(e1.counter)
                      THEN ReturnSkipped(e1)
                      ELSE LET c == Correlate(event_type, pt, found)
                               ev == MouseEvent(event_type, button, pt, c[1])
                           IN  CallNextHookEx(
                                   [e1 EXCEPT !.lookups = c[2],
                                              !.sends = MouseSends(ev)])

\* UnboundedSender::send on each channel a callback sent to: the event is
\* appended while the receiver lives, and is refused (Err, ignored by the
\* callback) once the receiver is gone.
Accepted(sends, c) ==
    SelectSeq(sends, LAMBDA s : s[1] = c /\ rxAlive[c])

Events(sends) == [i \in 1..Len(sends) |-> sends[i][2]]

\* sentLog takes one entry per invocation and channel: the event the
\* invocation forwarded there.
Forwarded(sends, c) ==
    IF Accepted(sends, c) = <<>> THEN <<>> ELSE <<Accepted(sends, c)[1][2]>>

\* Mutant: a send waits while an event is pending in the channel.
Deliver_Blocking(sends) ==
    /\ \A i \in 1..Len(sends) : queue[sends[i][1]] = <<>>
    /\ queue' = [c \in Recorders |-> queue[c] \o Events(Accepted(sends, c))]
    /\ sentLog' = [c \in Recorders |-> sentLog[c] \o Forwarded(sends, c)]

Deliver(sends) ==
    /\ queue' = [c \in Recorders |-> queue[c] \o Events(Accepted(sends, c))]
    /\ sentLog' = [c \in Recorders |-> sentLog[c] \o Forwarded(sends, c)]

\* The number of events waiting in the channel an invocation sends to, taken
\* before the send.
Pending(sends) == IF sends = <<>> THEN 0 ELSE Len(queue[sends[1][1]])

\* The OS calls the keyboard callback of an installed keyboard hook.
KeyboardHookCall(h, code, wparam, key_code, flags) ==
    /\ h \in hooks
    /\ h[2] = "keyboard"
    /\ LET e == keyboard_hook_proc(tls, code, wparam, key_code, flags)
       IN  /\ Deliver(e.sends)
           /\ last' = [NoCall EXCEPT !.op = "keyboard_hook_proc", !.rec = h[1],
                          !.action = (code = HC_ACTION),
                          !.msg = IF code = HC_ACTION THEN wparam ELSE "",
                          !.flags = IF e.sends # <<>> THEN Some(flags)
                                    ELSE None,
                          !.sends = e.sends, !.pending = Pending(e.sends),
                          !.next = e.next, !.panicked = e.panicked,
                          !.decoded = e.decoded,
                          !.key = IF code = HC_ACTION THEN Some(key_code)
                                  ELSE None]
    /\ UNCHANGED <<recorder, hooks, tls, MOVE_COUNTER, received, rxAlive,
                   moveOrdinal, forwardedMoves, DesktopVars, LocatorVars, HierarchyVars>>

\* The keyboard callback of an installed hook runs in the context of a
\* thread that never ran setup_keyboard_hook: its thread-local slots hold
\* their initial values.
KeyboardHookCallOffThread(h, code, wparam, key_code, flags) ==
    /\ h \in hooks
    /\ h[2] = "keyboard"
    /\ LET e == keyboard_hook_proc(EmptySlots, code, wparam, key_code, flags)
       IN  /\ Deliver(e.sends)
           /\ last' = [NoCall EXCEPT !.op = "keyboard_hook_proc", !.rec = h[1],
                          !.action = (code = HC_ACTION),
                          !.msg = IF code = HC_ACTION THEN wparam ELSE "",
                          !.sends = e.sends, !.pending = Pending(e.sends),
                          !.next = e.next, !.panicked = e.panicked,
                          !.slotEmpty = TRUE, !.decoded = e.decoded,
                          !.key = IF code = HC_ACTION THEN Some(key_code)
                                  ELSE None]
    /\ UNCHANGED <<recorder, hooks, tls, MOVE_COUNTER, received, rxAlive,
                   moveOrdinal, forwardedMoves, DesktopVars, LocatorVars,
                   HierarchyVars>>

\* The OS calls the mouse callback of an installed mouse hook, in a build
\* with or without overflow checks.
MouseHookCallIn(h, code, wparam, pt, found, checked) ==
    /\ h \in hooks
    /\ h[2] = "mouse"
    /\ LET e == mouse_hook_proc(code, wparam, pt, found, checked)
           rawMove == code = HC_ACTION /\ wparam = "WM_MOUSEMOVE"
           k == IF rawMove THEN moveOrdinal + 1 ELSE moveOrdinal
       IN  /\ Deliver(e.sends)
           /\ MOVE_COUNTER' = e.counter
           /\ recorder' = IF e.cell = 0
                          THEN recorder
                          ELSE [recorder EXCEPT
                                   ![e.cell].last_mouse_pos = Some(pt)]
           /\ moveOrdinal' = k
           /\ forwardedMoves' = IF rawMove /\ e.sends # <<>>
                                THEN forwardedMoves \cup {k}
                                ELSE forwardedMoves
           /\ last' = [NoCall EXCEPT !.op = "mouse_hook_proc", !.rec = h[1],
                          !.action = (code = HC_ACTION),
                          !.msg = IF code = HC_ACTION THEN wparam ELSE "",
                          !.pt = IF code = HC_ACTION THEN Some(pt) ELSE None,
                          !.found = IF e.lookups > 0 THEN Some(found)
                                    ELSE None,
                          !.sends = e.sends, !.lookups = e.lookups,
                          !.pending = Pending(e.sends),
                          !.next = e.next, !.panicked = e.panicked,
                          !.decoded = e.decoded, !.cell = e.cell,
                          !.ordinal = IF rawMove THEN k ELSE 0]
    /\ UNCHANGED <<hooks, tls, received, rxAlive, DesktopVars, LocatorVars, HierarchyVars>>

\* The build shows only where the addition overflows.
Builds == IF Overflows(MOVE_COUNTER) THEN BOOLEAN ELSE {FALSE}
MouseHookCall(h, code, wparam, pt, found) ==
    \E checked \in Builds : MouseHookCallIn(h, code, wparam, pt, found, checked)

\* ------------------------------------------------------------------ stop
\* UnhookWindowsHookEx(handle): succeeds only on a hook the OS still holds,
\* and may fail on one (removed = FALSE); a failure is logged as a warning.
Unhook(hs, handle, removed) ==
    IF handle # None /\ handle[1] \in hs /\ removed
    THEN hs \ {handle[1]}
    ELSE hs

UnhookWarns(hs, handle, removed) ==
    IF handle # None /\ ~(handle[1] \in hs /\ removed) THEN 1 ELSE 0

\* Mutant: a failed removal is returned as an error.
StopResult_Strict(warns) == IF warns > 0 THEN "InternalError" ELSE "Ok"

\* WindowsRecorder::stop(&self): the two handles, in turn; always Ok.
StopResult(warns) == "Ok"

\* The calls of UnhookWindowsHookEx a stop makes: one per handle that is
\* set.
UnhookAttempts(rec) ==
    (IF rec.keyboard_hook # None THEN 1 ELSE 0)
    + (IF rec.mouse_hook # None THEN 1 ELSE 0)

\* Mutant: stop starts the Move counter over.
Stop_ResetsCounter(r, kbRemoved, mouseRemoved) ==
    /\ recorder[r].state = "live"
    /\ LET h1 == Unhook(hooks, recorder[r].keyboard_hook, kbRemoved)
           w1 == UnhookWarns(hooks, recorder[r].keyboard_hook, kbRemoved)
           h2 == Unhook(h1, recorder[r].mouse_hook, mouseRemoved)
           w2 == UnhookWarns(h1, recorder[r].mouse_hook, mouseRemoved)
       IN  /\ hooks' = h2
           /\ last' = [NoCall EXCEPT !.op = "stop", !.rec = r,
                          !.result = StopResult(w1 + w2),
                          !.warns = w1 + w2,
                          !.attempts = UnhookAttempts(recorder[r]),
                          !.again = (last.op = "stop" /\ last.rec = r)]
    /\ MOVE_COUNTER' = 0
    /\ UNCHANGED <<recorder, tls, queue, received, rxAlive, sentLog,
                   moveOrdinal, forwardedMoves, DesktopVars, LocatorVars,
                   HierarchyVars>>

\* Mutant: stop takes the handles out of the recorder.
Stop_TakesHandles(r, kbRemoved, mouseRemoved) ==
    /\ recorder[r].state = "live"
    /\ LET h1 == Unhook(hooks, recorder[r].keyboard_hook, kbRemoved)
           w1 == UnhookWarns(hooks, recorder[r].keyboard_hook, kbRemoved)
           h2 == Unhook(h1, recorder[r].mouse_hook, mouseRemoved)
           w2 == UnhookWarns(h1, recorder[r].mouse_hook, mouseRemoved)
       IN  /\ hooks' = h2
           /\ last' = [NoCall EXCEPT !.op = "stop", !.rec = r,
                          !.result = StopResult(w1 + w2),
                          !.warns = w1 + w2,
                          !.attempts = UnhookAttempts(recorder[r]),
                          !.again = (last.op = "stop" /\ last.rec = r)]
    /\ recorder' = [recorder EXCEPT ![r].keyboard_hook = None,
                                    ![r].mouse_hook = None]
    /\ UNCHANGED tls
    /\ Untouched

Stop(r, kbRemoved, mouseRemoved) ==
    /\ recorder[r].state = "live"
    /\ LET h1 == Unhook(hooks, recorder[r].keyboard_hook, kbRemoved)
           w1 == UnhookWarns(hooks, recorder[r].keyboard_hook, kbRemoved)
           h2 == Unhook(h1, recorder[r].mouse_hook, mouseRemoved)
           w2 == UnhookWarns(h1, recorder[r].mouse_hook, mouseRemoved)
       IN  /\ hooks' = h2
           /\ last' = [NoCall EXCEPT !.op = "stop", !.rec = r,
                          !.result = StopResult(w1 + w2),
                          !.warns = w1 + w2,
                          !.attempts = UnhookAttempts(recorder[r]),
                          !.again = (last.op = "stop" /\ last.rec = r)]
    /\ UNCHANGED <<recorder, tls>>
    /\ Untouched

\* --------------------------------------------------------------- consumer
\* The consumer takes the oldest event of its channel.
Recv(c) ==
    /\ rxAlive[c]
    /\ queue[c] # <<>>
    /\ received' = [received EXCEPT ![c] = Append(@, Head(queue[c]))]
    /\ queue' = [queue EXCEPT ![c] = Tail(@)]
    /\ UNCHANGED <<recorder, hooks, tls, MOVE_COUNTER, rxAlive, sentLog,
                   moveOrdinal, forwardedMoves, last, DesktopVars, LocatorVars, HierarchyVars>>

\* The consumer goes away: the receiver is dropped, later sends fail.
DropReceiver(c) ==
    /\ rxAlive[c]
    /\ recorder[c].state # "absent"
    /\ rxAlive' = [rxAlive EXCEPT ![c] = FALSE]
    /\ UNCHANGED <<recorder, hooks, tls, MOVE_COUNTER, queue, received,
                   sentLog, moveOrdinal, forwardedMoves, last, DesktopVars, LocatorVars, HierarchyVars>>

\* ---------------------------------------------------------------- overlay
\* The renderer behind the OverlayEngine (WindowsOverlayRenderer): the
\* active flag, the highlights and popups to paint, and the quit messages
\* posted to the queue of the thread that owns the overlay window.
NewRenderer ==
    [active |-> FALSE, highlights |-> <<>>, popups |-> <<>>, quits |-> 0]

\* What a call into the renderer or the engine yields: the new object, the
\* result, the renderer methods invoked (in order) and whether the call is
\* still inside the renderer's message loop.
Out(obj, result, calls, pumping) ==
    [obj |-> obj, result |-> result, calls |-> calls, pumping |-> pumping]

Renderer_start(r) ==
    IF r.active THEN r ELSE [r EXCEPT !.active = TRUE]

\* Mutant: stop posts the quit message and leaves the renderer active.
Renderer_stop_StaysActive(r) ==
    IF ~r.active THEN r
    ELSE [r EXCEPT !.quits = @ + 1]

\* stop hides the window and posts a quit message to it.
Renderer_stop(r) ==
    IF ~r.active THEN r
    ELSE [r EXCEPT !.active = FALSE, !.quits = @ + 1]

Renderer_draw_highlight(r, bounds, style) ==
    IF ~r.active THEN r
    ELSE [r EXCEPT !.highlights = Append(@, <<bounds, style>>)]

Renderer_show_popup(r, text, style) ==
    IF ~r.active THEN r
    ELSE [r EXCEPT !.popups = Append(@, <<text, style>>)]

\* Mutant: clear empties the highlights and keeps the popups.
Renderer_clear_KeepsPopups(r) ==
    IF ~r.active THEN r
    ELSE [r EXCEPT !.highlights = <<>>]

Renderer_clear(r) ==
    IF ~r.active THEN r
    ELSE [r EXCEPT !.highlights = <<>>, !.popups = <<>>]

\* update pumps messages until GetMessageA retrieves a quit message:
\* <<renderer, still pumping>>.
Renderer_update(r) ==
    IF ~r.active THEN <<r, FALSE>>
    ELSE IF r.quits > 0
         THEN <<[r EXCEPT !.quits = @ - 1], FALSE>>
         ELSE <<r, TRUE>>

\* OverlayEngine: the renderer and the enabled flag.
NewOverlayEngine == [enabled |-> FALSE, renderer |-> NewRenderer]

\* Mutant: start asks the renderer whatever the enabled flag says.
Overlay_start_Always(e) ==
    Out([e EXCEPT !.renderer = Renderer_start(@), !.enabled = TRUE],
        "Ok", <<"start">>, FALSE)

Overlay_start(e) ==
    IF e.enabled
    THEN Out(e, "Ok", <<>>, FALSE)
    ELSE Out([e EXCEPT !.renderer = Renderer_start(@), !.enabled = TRUE],
             "Ok", <<"start">>, FALSE)

Overlay_stop(e) ==
    IF ~e.enabled
    THEN Out(e, "Ok", <<>>, FALSE)
    ELSE Out([e EXCEPT !.renderer = Renderer_stop(@), !.enabled = FALSE],
             "Ok", <<"stop">>, FALSE)

\* Mutant: toggle reports the enabled flag it found.
Overlay_toggle_ReturnsOld(e) ==
    LET o == IF e.enabled THEN Overlay_stop(e) ELSE Overlay_start(e)
    IN  [o EXCEPT !.result = IF e.enabled THEN "Ok(true)" ELSE "Ok(false)"]

\* toggle: the result carries the enabled flag after the call.
Overlay_toggle(e) ==
    LET o == IF e.enabled THEN Overlay_stop(e) ELSE Overlay_start(e)
    IN  [o EXCEPT !.result = IF o.obj.enabled THEN "Ok(true)"
                             ELSE "Ok(false)"]

\* start, stop and toggle over any OverlayRenderer behind the engine's
\* Box<dyn OverlayRenderer>: outcome is what the renderer's start or stop
\* returns, "Ok" or an error; the Windows renderer always returns "Ok".
\* Mutant: start sets the enabled flag before it asks the renderer.
Overlay_start_with_EnablesFirst(e, outcome) ==
    IF e.enabled
    THEN Out(e, "Ok", <<>>, FALSE)
    ELSE IF outcome # "Ok"
         THEN Out([e EXCEPT !.enabled = TRUE], outcome, <<"start">>, FALSE)
         ELSE Out([e EXCEPT !.renderer = Renderer_start(@),
                            !.enabled = TRUE],
                  "Ok", <<"start">>, FALSE)

Overlay_start_with(e, outcome) ==
    IF e.enabled
    THEN Out(e, "Ok", <<>>, FALSE)
    ELSE IF outcome # "Ok"
         THEN Out(e, outcome, <<"start">>, FALSE)
         ELSE Out([e EXCEPT !.renderer = Renderer_start(@),
                            !.enabled = TRUE],
                  "Ok", <<"start">>, FALSE)

Overlay_stop_with(e, outcome) ==
    IF ~e.enabled
    THEN Out(e, "Ok", <<>>, FALSE)
    ELSE IF outcome # "Ok"
         THEN Out(e, outcome, <<"stop">>, FALSE)
         ELSE Out([e EXCEPT !.renderer = Renderer_stop(@),
                            !.enabled = FALSE],
                  "Ok", <<"stop">>, FALSE)

Overlay_toggle_with(e, outcome) ==
    LET o == IF e.enabled THEN Overlay_stop_with(e, outcome)
             ELSE Overlay_start_with(e, outcome)
    IN  IF o.result # "Ok" THEN o
        ELSE [o EXCEPT !.result = IF o.obj.enabled THEN "Ok(true)"
                                  ELSE "Ok(false)"]

\* The elements of a highlight call are given by the outcome of their
\* bounds query: Some(rectangle), or None when the query fails.
\* Mutant: the loop ends at the first element whose bounds query fails.
RECURSIVE DrawAll_StopsAtFailure(_, _, _)
DrawAll_StopsAtFailure(r, elements, style) ==
    IF elements = <<>> \/ Head(elements) = None THEN r
    ELSE DrawAll_StopsAtFailure(
             Renderer_draw_highlight(r, Head(elements)[1], style),
             Tail(elements), style)

RECURSIVE DrawAll(_, _, _)
DrawAll(r, elements, style) ==
    IF elements = <<>> THEN r
    ELSE DrawAll(IF Head(elements) = None THEN r
                 ELSE Renderer_draw_highlight(r, Head(elements)[1], style),
                 Tail(elements), style)

DrawCalls(elements) ==
    [i \in 1..Len(SelectSeq(elements, LAMBDA b : b # None))
        |-> "draw_highlight"]

DefaultHighlightStyle == "Border"
DefaultPopupStyle == "Info"
StyleOr(style, default) == IF style = None THEN default ELSE style[1]

Overlay_is_enabled(e) == e.enabled

Overlay_highlight_elements(e, elements, style) ==
    IF ~e.enabled
    THEN Out(e, "Ok", <<>>, FALSE)
    ELSE LET r1 == Renderer_clear(e.renderer)
             r2 == DrawAll(r1, elements,
                           StyleOr(style, DefaultHighlightStyle))
             u == Renderer_update(r2)
         IN  Out([e EXCEPT !.renderer = u[1]], "Ok",
                 <<"clear">> \o DrawCalls(elements) \o <<"update">>, u[2])

Overlay_show_popup(e, message, style) ==
    IF ~e.enabled
    THEN Out(e, "Ok", <<>>, FALSE)
    ELSE Out([e EXCEPT !.renderer =
                 Renderer_show_popup(@, message,
                                     StyleOr(style, DefaultPopupStyle))],
             "Ok", <<"show_popup">>, FALSE)

Overlay_clear(e) ==
    IF ~e.enabled
    THEN Out(e, "Ok", <<>>, FALSE)
    ELSE Out([e EXCEPT !.renderer = Renderer_clear(@)], "Ok", <<"clear">>,
             FALSE)

\* OverlayEngine::new: the renderer is created and initialized; outcome is
\* "Ok" or the error of the renderer's creation or initialization.
Overlay_new(outcome) ==
    IF outcome = "Ok" THEN Some(NewOverlayEngine) ELSE None

\* WindowsOverlayRenderer::clone
Renderer_clone(r) ==
    [active |-> r.active, highlights |-> r.highlights, popups |-> r.popups]

\* create_overlay_window, reached from Desktop::new through
\* OverlayEngine::new and initialize once the engine is there: when the
\* window is created, a clone of the new renderer is stored in
\* GLOBAL_RENDERER for the window procedure.
create_overlay_window(global, engine, overlay) ==
    IF engine = "Ok" /\ overlay = "Ok"
    THEN Some(Renderer_clone(NewRenderer))
    ELSE global

\* ---------------------------------------------------------------- Desktop
NoDesktop == [state |-> "absent", visualizer |-> None, pumping |-> FALSE]

\* prior and lifecycle: the last of start and stop the renderer was asked
\* before the call and up to its end, "none" when it was asked neither.
\* held: how many highlights and popups the renderer held before the call.
NoDesktopCall ==
    [op |-> "none", had |-> "", args |-> <<>>, result |-> "", calls |-> <<>>,
     prior |-> "none", lifecycle |-> "none",
     held |-> [highlights |-> 0, popups |-> 0]]

Held(d) ==
    IF d.visualizer = None THEN [highlights |-> 0, popups |-> 0]
    ELSE [highlights |-> Len(d.visualizer[1].renderer.highlights),
          popups |-> Len(d.visualizer[1].renderer.popups)]

LifecycleCalls(calls) == SelectSeq(calls, LAMBDA c : c \in {"start", "stop"})
Lifecycle(calls, prior) ==
    IF LifecycleCalls(calls) = <<>> THEN prior
    ELSE LifecycleCalls(calls)[Len(LifecycleCalls(calls))]

\* The visualizer a call finds: "none", "disabled" or "enabled".
Had(d) ==
    IF d.visualizer = None THEN "none"
    ELSE IF d.visualizer[1].enabled THEN "enabled" ELSE "disabled"

\* Mutant: a failed overlay fails the construction.
Desktop_new_NeedsOverlay(engine, overlay) ==
    IF engine # "Ok"
    THEN Out([NoDesktop EXCEPT !.state = "failed"], engine, <<>>, FALSE)
    ELSE IF overlay # "Ok"
         THEN Out([NoDesktop EXCEPT !.state = "failed"], overlay, <<>>,
                  FALSE)
         ELSE Out([NoDesktop EXCEPT !.state = "live",
                                    !.visualizer = Overlay_new(overlay)],
                  "Ok", <<>>, FALSE)

\* Desktop::new: engine and overlay are the outcomes of create_engine and
\* of OverlayEngine::new.
Desktop_new(engine, overlay) ==
    IF engine # "Ok"
    THEN Out([NoDesktop EXCEPT !.state = "failed"], engine, <<>>, FALSE)
    ELSE Out([NoDesktop EXCEPT !.state = "live",
                               !.visualizer = Overlay_new(overlay)],
             "Ok", <<>>, FALSE)

\* A Desktop method on the visualizer: Ok without a visualizer, the engine's
\* outcome otherwise.
OnVisualizer(d, o) ==
    Out([d EXCEPT !.visualizer = Some(o.obj), !.pumping = o.pumping],
        o.result, o.calls, o.pumping)

Desktop_highlight_elements(d, elements, style) ==
    IF d.visualizer # None
    THEN IF ~Overlay_is_enabled(d.visualizer[1])
         THEN Out(d, "Ok", <<>>, FALSE)
         ELSE OnVisualizer(d, Overlay_highlight_elements(d.visualizer[1],
                                                        elements, style))
    ELSE Out(d, "Ok", <<>>, FALSE)

Desktop_show_popup(d, message, style) ==
    IF d.visualizer # None
    THEN IF ~Overlay_is_enabled(d.visualizer[1])
         THEN Out(d, "Ok", <<>>, FALSE)
         ELSE OnVisualizer(d, Overlay_show_popup(d.visualizer[1], message,
                                                 style))
    ELSE Out(d, "Ok", <<>>, FALSE)

Desktop_clear_visualizations(d) ==
    IF d.visualizer # None
    THEN IF ~Overlay_is_enabled(d.visualizer[1])
         THEN Out(d, "Ok", <<>>, FALSE)
         ELSE OnVisualizer(d, Overlay_clear(d.visualizer[1]))
    ELSE Out(d, "Ok", <<>>, FALSE)

Desktop_start_visualization(d) ==
    IF d.visualizer # None
    THEN OnVisualizer(d, Overlay_start(d.visualizer[1]))
    ELSE Out(d, "Ok", <<>>, FALSE)

Desktop_stop_visualization(d) ==
    IF d.visualizer # None
    THEN OnVisualizer(d, Overlay_stop(d.visualizer[1]))
    ELSE Out(d, "Ok", <<>>, FALSE)

\* Mutant: without a visualizer the toggle is an error.
Desktop_toggle_visualization_Strict(d) ==
    IF d.visualizer # None
    THEN OnVisualizer(d, Overlay_toggle(d.visualizer[1]))
    ELSE Out(d, "PlatformNotSupported", <<>>, FALSE)

Desktop_toggle_visualization(d) ==
    IF d.visualizer # None
    THEN OnVisualizer(d, Overlay_toggle(d.visualizer[1]))
    ELSE Out(d, "Ok(false)", <<>>, FALSE)

\* A call on the live Desktop by its one caller; no call starts while an
\* earlier one is still inside the renderer's message loop.
DesktopCall(op, args, o) ==
    /\ desktop.state = "live"
    /\ ~desktop.pumping
    /\ desktop' = o.obj
    /\ dlast' = [op |-> op, had |-> Had(desktop), args |-> args,
                 result |-> IF o.pumping THEN "" ELSE o.result,
                 calls |-> o.calls, prior |-> dlast.lifecycle,
                 lifecycle |-> Lifecycle(o.calls, dlast.lifecycle),
                 held |-> Held(desktop)]
    /\ UNCHANGED <<GLOBAL_RENDERER, painted>>
    /\ UNCHANGED <<RecorderVars, LocatorVars, HierarchyVars>>

DesktopNew(engine, overlay) ==
    /\ desktop.state # "live"
    /\ LET o == Desktop_new(engine, overlay)
       IN  /\ desktop' = o.obj
           /\ dlast' = [op |-> "new", had |-> "",
                        args |-> <<engine, overlay>>,
                        result |-> o.result, calls |-> o.calls,
                        prior |-> "none", lifecycle |-> "none",
                        held |-> Held(NoDesktop)]
    /\ GLOBAL_RENDERER' = create_overlay_window(GLOBAL_RENDERER, engine,
                                                overlay)
    /\ UNCHANGED painted
    /\ UNCHANGED <<RecorderVars, LocatorVars, HierarchyVars>>

HighlightElements(elements, style) ==
    DesktopCall("highlight_elements", <<elements, style>>,
                Desktop_highlight_elements(desktop, elements, style))
ShowPopup(message, style) ==
    DesktopCall("show_popup", <<message, style>>,
                Desktop_show_popup(desktop, message, style))
ClearVisualizations ==
    DesktopCall("clear_visualizations", <<>>,
                Desktop_clear_visualizations(desktop))
StartVisualization ==
    DesktopCall("start_visualization", <<>>,
                Desktop_start_visualization(desktop))
StopVisualization ==
    DesktopCall("stop_visualization", <<>>,
                Desktop_stop_visualization(desktop))
ToggleVisualization ==
    DesktopCall("toggle_visualization", <<>>,
                Desktop_toggle_visualization(desktop))

\* The lifecycle calls on a Desktop that has a visualizer, over a renderer
\* whose start or stop returns outcome: the engine's error is the call's.
StartVisualizationWith(outcome) ==
    /\ desktop.visualizer # None
    /\ DesktopCall("start_visualization", <<outcome>>,
                   OnVisualizer(desktop,
                       Overlay_start_with(desktop.visualizer[1], outcome)))
StopVisualizationWith(outcome) ==
    /\ desktop.visualizer # None
    /\ DesktopCall("stop_visualization", <<outcome>>,
                   OnVisualizer(desktop,
                       Overlay_stop_with(desktop.visualizer[1], outcome)))
ToggleVisualizationWith(outcome) ==
    /\ desktop.visualizer # None
    /\ DesktopCall("toggle_visualization", <<outcome>>,
                   OnVisualizer(desktop,
                       Overlay_toggle_with(desktop.visualizer[1], outcome)))

\* The message loop of update retrieves a quit message (the overlay window
\* was destroyed: WM_DESTROY posts one) and the pending highlight call
\* returns.
UpdateReturns ==
    /\ desktop.pumping
    /\ desktop' = [desktop EXCEPT !.pumping = FALSE]
    /\ dlast' = [dlast EXCEPT !.result = "Ok"]
    /\ UNCHANGED <<GLOBAL_RENDERER, painted>>
    /\ UNCHANGED <<RecorderVars, LocatorVars, HierarchyVars>>

\* popups.retain(..): the popups that have not expired, in order.
RECURSIVE Retain(_, _, _)
Retain(popups, i, expired) ==
    IF i > Len(popups) THEN <<>>
    ELSE (IF i \in expired THEN <<>> ELSE <<popups[i]>>)
         \o Retain(popups, i + 1, expired)

\* wnd_proc(WM_PAINT), dispatched by the message loop of update: the
\* highlights of GLOBAL_RENDERER are drawn, then its popups that have not
\* expired, and the expired ones are removed from it.
Paint(expired) ==
    /\ desktop.pumping
    /\ GLOBAL_RENDERER # None
    /\ LET g == GLOBAL_RENDERER[1]
           kept == Retain(g.popups, 1, expired)
       IN  /\ painted' = Some([highlights |-> g.highlights, popups |-> kept])
           /\ GLOBAL_RENDERER' = Some([g EXCEPT !.popups = kept])
    /\ UNCHANGED <<desktop, dlast>>
    /\ UNCHANGED <<RecorderVars, LocatorVars, HierarchyVars>>

\* ---------------------------------------------------------------- locator
\* Selector and Locator (selector.rs and locator.rs are not part of the
\* sources at hand; this part follows the specification, sections 3, 4.2 and
\* 6).  A selector text is a sequence of tokens; a quote is a token of its
\* own, so a quoted value is the words between two quotes.
Quote == "\""
Attributes == {"role", "name", "automation_id", "class_name"}
InvalidSelector == [valid |-> FALSE, clauses |-> <<>>]

\* The index of the first quote in toks, 0 when there is none.
RECURSIVE ClosingQuote(_, _)
ClosingQuote(toks, i) ==
    IF i > Len(toks) THEN 0
    ELSE IF toks[i] = Quote THEN i ELSE ClosingQuote(toks, i + 1)

\* <value>: a bare token or the words between two quotes;
\* <<ok, value, rest>>.
ParseValue(toks) ==
    IF toks = <<>> THEN <<FALSE, <<>>, <<>>>>
    ELSE IF Head(toks) = Quote
         THEN LET c == ClosingQuote(Tail(toks), 1)
              IN  IF c = 0 THEN <<FALSE, <<>>, <<>>>>
                  ELSE <<TRUE, SubSeq(Tail(toks), 1, c - 1),
                         SubSeq(Tail(toks), c + 1, Len(toks) - 1)>>
         ELSE IF Head(toks) \in {"AND", "="}
              THEN <<FALSE, <<>>, <<>>>>
              ELSE <<TRUE, <<Head(toks)>>, Tail(toks)>>

\* Mutant: any name is taken for an attribute.
KnownAttribute_Any(tok) == tok \notin {"AND", "=", Quote}

KnownAttribute(tok) == tok \in Attributes

\* <attr>=<value> [AND <attr>=<value>]*
RECURSIVE ParseClauses(_, _)
ParseClauses(toks, clauses) ==
    IF Len(toks) < 2 \/ ~KnownAttribute(toks[1]) \/ toks[2] # "="
    THEN InvalidSelector
    ELSE LET v == ParseValue(SubSeq(toks, 3, Len(toks)))
             cs == Append(clauses, <<toks[1], v[2]>>)
         IN  IF ~v[1] THEN InvalidSelector
             ELSE IF v[3] = <<>>
                  THEN [valid |-> TRUE, clauses |-> cs]
                  ELSE IF Head(v[3]) = "AND"
                       THEN ParseClauses(Tail(v[3]), cs)
                       ELSE InvalidSelector

\* From<&str> for Selector
Parse(text) == ParseClauses(text, <<>>)

\* Desktop::locator(selector): the argument is converted to a Selector and
\* bound to the engine; the tree is not asked anything.
Desktop_locator(text) == Parse(text)

\* The accessibility tree: five elements, the root always present.
Nodes == 1..5
Root == 1
Children == <<  <<2, 3>>, <<4>>, <<5>>, <<>>, <<>>  >>
Parent(n) == CHOOSE p \in Nodes : \E i \in 1..Len(Children[p]) :
                                      Children[p][i] = n
NodeAttributes ==
    << [role |-> <<"window">>, name |-> <<"App">>],
       [role |-> <<"pane">>, name |-> <<"Main">>],
       [role |-> <<"button">>, name |-> <<"OK">>],
       [role |-> <<"button">>, name |-> <<"OK">>],
       [role |-> <<"button">>, name |-> <<"Save", "Changes">>] >>

\* An attribute read; an attribute the element does not have reads empty.
Attribute(n, attr) ==
    CASE attr = "role" -> NodeAttributes[n].role
      [] attr = "name" -> NodeAttributes[n].name
      [] OTHER -> <<>>

Matches(sel, n) ==
    \A i \in 1..Len(sel.clauses) :
        Attribute(n, sel.clauses[i][1]) = sel.clauses[i][2]

PresentChildren(n, tree) == SelectSeq(Children[n], LAMBDA c : c \in tree)

\* Mutant: the walk goes level by level.
Push_BreadthFirst(stack, children) == Tail(stack) \o children

\* The walk continues with the children of the element just visited, then
\* with what was waiting.
Push(stack, children) == children \o Tail(stack)

\* One depth-first pre-order walk of the tree from the elements on the
\* stack: the matches in visiting order and the number of elements visited.
\* A walk for first() ends at its first match.
RECURSIVE Walk(_, _, _, _, _, _)
Walk(stack, tree, sel, stop, found, visited) ==
    IF stack = <<>> THEN [found |-> found, visited |-> visited]
    ELSE LET n == Head(stack)
             f == IF Matches(sel, n) THEN Append(found, n) ELSE found
         IN  IF stop /\ f # <<>>
             THEN [found |-> f, visited |-> visited + 1]
             ELSE Walk(Push(stack, PresentChildren(n, tree)), tree, sel,
                       stop, f, visited + 1)

\* One link of a chain: a walk of the subtree of each parent match, in the
\* order of the parent matches.
RECURSIVE EvalLink(_, _, _, _, _, _)
EvalLink(parents, tree, sel, stop, found, visited) ==
    IF parents = <<>> \/ (stop /\ found # <<>>)
    THEN [found |-> found, visited |-> visited]
    ELSE LET w == Walk(<<Head(parents)>>, tree, sel, stop, <<>>, 0)
         IN  EvalLink(Tail(parents), tree, sel, stop, found \o w.found,
                      visited + w.visited)

\* Mutant: every link walks the whole tree.
Scope_WholeTree(parents) == <<Root>>

\* The scope of a link: the matches of the link before it.
Scope(parents) == parents

\* The links in chain order; an empty link ends the attempt with no match.
\* links counts the links evaluated.
RECURSIVE EvalChain(_, _, _, _, _, _)
EvalChain(chain, i, parents, tree, stop, visited) ==
    IF i > Len(chain)
    THEN [found |-> parents, visited |-> visited, links |-> i - 1]
    ELSE LET r == EvalLink(Scope(parents), tree, chain[i],
                           stop /\ i = Len(chain), <<>>, 0)
         IN  IF r.found = <<>>
             THEN [found |-> <<>>, visited |-> visited + r.visited,
                   links |-> i]
             ELSE EvalChain(chain, i + 1, r.found, tree, stop,
                            visited + r.visited)

\* The timing of the poll loop, in ticks.
PollInterval == 2
DefaultTimeout == 3

Idle ==
    [op |-> "none", texts |-> <<>>, chain |-> <<>>, timeout |-> 0,
     phase |-> "idle", elapsed |-> 0, walks |-> 0, sleeps |-> 0,
     visited |-> 0, links |-> 0, lastWalk |-> 0, seen |-> {},
     result |-> <<>>, error |-> "", late |-> FALSE, prev |-> None]

\* Mutant: the call gives up one interval early.
Expired_Early(elapsed, timeout, found) ==
    found = <<>> /\ elapsed + PollInterval >= timeout

\* Mutant: the timeout also ends a call whose walk found a match late.
Expired_Strict(elapsed, timeout, found) == elapsed >= timeout

\* The test between two attempts: the call gives up when the last walk
\* found nothing and the time is up.
Expired(elapsed, timeout, found) == found = <<>> /\ elapsed >= timeout

\* One attempt of first/all: an optional sleep, one evaluation of the chain
\* on the tree as it is now, taking w ticks, and the test that follows it.
Attempt(l, tree, w, slept) ==
    LET r == EvalChain(l.chain, 1, <<Root>>, tree, l.op = "first", 0)
        t == l.elapsed + (IF slept THEN PollInterval ELSE 0) + w
        l1 == [l EXCEPT !.elapsed = t, !.walks = @ + 1,
                        !.sleeps = @ + (IF slept THEN 1 ELSE 0),
                        !.visited = r.visited, !.links = r.links,
                        !.lastWalk = w, !.seen = tree]
    IN  IF Expired(t, l.timeout, r.found)
        THEN [l1 EXCEPT !.phase = "done", !.result = <<>>,
                        !.error = IF l.op = "first" THEN "Timeout" ELSE ""]
        ELSE IF r.found # <<>>
             THEN [l1 EXCEPT !.phase = "done",
                             !.result = IF l.op = "first"
                                        THEN <<Head(r.found)>>
                                        ELSE r.found]
             ELSE [l1 EXCEPT !.phase = "sleeping"]

\* The result of the call before this one, kept while the same call is
\* repeated on an unchanged tree.
Previous(l, op, texts) ==
    IF l.phase = "done" /\ l.op = op /\ l.texts = texts /\ l.error = ""
       /\ ~l.late
    THEN Some(l.result)
    ELSE None

\* desktop.locator(texts[1]).locator(texts[2])... then first(timeout) or
\* all(timeout): an invalid selector fails at once, otherwise the first
\* attempt is made.
LocatorCall(op, texts, timeout, w) ==
    /\ loc.phase \in {"idle", "done"}
    /\ LET chain == [i \in 1..Len(texts) |-> Desktop_locator(texts[i])]
           l == [Idle EXCEPT !.op = op, !.texts = texts, !.chain = chain,
                             !.timeout = IF timeout = None
                                         THEN DefaultTimeout
                                         ELSE timeout[1],
                             !.prev = Previous(loc, op, texts)]
       IN  loc' = IF \E i \in 1..Len(chain) : ~chain[i].valid
                  THEN [l EXCEPT !.phase = "done",
                                 !.error = "InvalidSelector"]
                  ELSE Attempt(l, present, w, FALSE)
    /\ UNCHANGED <<present, RecorderVars, DesktopVars, HierarchyVars>>

\* The poll loop sleeps one interval and tries again.
Poll(w) ==
    /\ loc.phase = "sleeping"
    /\ loc' = Attempt(loc, present, w, TRUE)
    /\ UNCHANGED <<present, RecorderVars, DesktopVars, HierarchyVars>>

\* The tree changes under the program: an element appears below a present
\* one, or a present element without present children goes away.  loc is
\* the call in progress or the call that has just returned: a change of the
\* tree during a call is noted in it, a change after it ends the record.
TreeChanged(l) ==
    IF l.phase = "sleeping" THEN [l EXCEPT !.late = TRUE] ELSE Idle

Appear(n) ==
    /\ n \notin present
    /\ Parent(n) \in present
    /\ present' = present \cup {n}
    /\ loc' = TreeChanged(loc)
    /\ UNCHANGED <<RecorderVars, DesktopVars, HierarchyVars>>

Vanish(n) ==
    /\ n \in present
    /\ n # Root
    /\ PresentChildren(n, present) = <<>>
    /\ present' = present \ {n}
    /\ loc' = TreeChanged(loc)
    /\ UNCHANGED <<RecorderVars, DesktopVars, HierarchyVars>>

\* Mutant: the locator resolves its chain when it is created.
Locator_new_Eager(texts) ==
    LET l == [Idle EXCEPT !.op = "locator", !.texts = texts,
                          !.chain = [i \in 1..Len(texts) |->
                                        Desktop_locator(texts[i])],
                          !.timeout = DefaultTimeout]
    IN  IF \E i \in 1..Len(texts) : ~l.chain[i].valid
        THEN l
        ELSE [Attempt(l, present, 0, FALSE) EXCEPT !.phase = "idle",
                                                   !.result = <<>>]

\* Locator::new(engine, selector), and .locator(selector) on a locator: the
\* selectors are stored with the engine handle; nothing is resolved.
Locator_new(texts) ==
    [Idle EXCEPT !.op = "locator", !.texts = texts,
                 !.chain = [i \in 1..Len(texts) |->
                               Desktop_locator(texts[i])]]

\* desktop.locator(texts[1]).locator(texts[2])... and nothing more.
CreateLocator(texts) ==
    /\ loc.phase \in {"idle", "done"}
    /\ loc' = Locator_new(texts)
    /\ UNCHANGED <<present, RecorderVars, DesktopVars, HierarchyVars>>

\* first(timeout) or all(timeout) on the locator created last.
Resolve(op, timeout, w) ==
    /\ loc.op = "locator"
    /\ LocatorCall(op, loc.texts, timeout, w)

\* --------------------------------------------------------- hierarchy path
\* get_element_hierarchy_path(element), run by get_ui_element_at_point inside
\* the mouse callback.  The UI Automation tree answers get_parent with an
\* element or with an error (0); the answers are the tree's, not the
\* program's, and need not form a tree.
Elements == 1..MaxElements
ParentAnswers == [Elements -> Elements \cup {0}]
ControlType(e) == IF e = 1 THEN "Window" ELSE "Button"
AutomationId(e) == IF e = 2 THEN "ok" ELSE ""
Name(e) == IF e = 3 THEN "" ELSE "Main"

\* The identifier of one element in the path.
Identifier(e) ==
    IF AutomationId(e) # "" THEN <<ControlType(e), AutomationId(e)>>
    ELSE IF Name(e) # "" THEN <<ControlType(e), Name(e)>>
         ELSE <<ControlType(e)>>

NoPath ==
    [parent |-> [e \in Elements |-> 0], current |-> None, path |-> <<>>,
     running |-> FALSE, result |-> None]

\* let mut path = Vec::new(); let mut current = Some(element.clone());
HierarchyStart(element, answers) ==
    /\ ~hier.running
    /\ hier' = [NoPath EXCEPT !.parent = answers,
                              !.current = Some(element), !.running = TRUE]
    /\ UNCHANGED <<RecorderVars, DesktopVars, LocatorVars>>

\* One turn of `while let Some(elem) = current`: the identifier is pushed
\* and current becomes elem.get_parent().ok().
HierarchyStep ==
    /\ hier.running
    /\ hier.current # None
    /\ Len(hier.path) < MaxPathSteps
    /\ LET elem == hier.current[1]
       IN  hier' = [hier EXCEPT
                       !.path = Append(@, Identifier(elem)),
                       !.current = IF hier.parent[elem] = 0 THEN None
                                   ELSE Some(hier.parent[elem])]
    /\ UNCHANGED <<RecorderVars, DesktopVars, LocatorVars>>

Reverse(q) == [i \in 1..Len(q) |-> q[Len(q) + 1 - i]]

\* The loop has ended: the path is reversed and returned.
HierarchyReturn ==
    /\ hier.running
    /\ hier.current = None
    /\ hier' = [hier EXCEPT !.running = FALSE,
                            !.result = IF hier.path = <<>> THEN None
                                       ELSE Some(Reverse(hier.path))]
    /\ UNCHANGED <<RecorderVars, DesktopVars, LocatorVars>>

Init ==
    /\ recorder = [r \in Recorders |-> NoRecorder]
    /\ hooks = {}
    /\ tls = EmptySlots
    /\ MOVE_COUNTER = 0
    /\ queue = [r \in Recorders |-> <<>>]
    /\ received = [r \in Recorders |-> <<>>]
    /\ rxAlive = [r \in Recorders |-> TRUE]
    /\ sentLog = [r \in Recorders |-> <<>>]
    /\ moveOrdinal = 0
    /\ forwardedMoves = {}
    /\ last = NoCall
    /\ desktop = NoDesktop
    /\ dlast = NoDesktopCall
    /\ GLOBAL_RENDERER = None
    /\ painted = None
    /\ present = {Root}
    /\ loc = Idle
    /\ hier = NoPath

\* ------------------------------------------------------- specifications
\* Budgets that keep the state space finite: a Move is delivered while fewer
\* than `moves` raw Moves were counted, any other input while fewer than
\* `events` events other than Moves were accepted by the channels.
IsMove(ev) == ev.class = "Mouse" /\ ev.event_type = "Move"
RECURSIVE SumOther(_, _)
SumOther(f, n) ==
    IF n = 0 THEN 0
    ELSE Len(SelectSeq(f[n], LAMBDA ev : ~IsMove(ev))) + SumOther(f, n - 1)
OtherSent == SumOther(sentLog, MaxRecorders)
KeyBudget(events) == OtherSent < events
MouseBudget(i, events, moves) ==
    IF i[1] = HC_ACTION /\ i[2] = "WM_MOUSEMOVE"
    THEN moveOrdinal < moves
    ELSE OtherSent < events

\* Inputs <<code, wparam, payload...>>.  With code # HC_ACTION the callbacks
\* read nothing else, so one message and payload stand for all; the lookup
\* outcome is only drawn for the button messages, the only ones that look up.
OtherCodes == HookCodes \ {HC_ACTION}
ButtonMessages ==
    {"WM_LBUTTONDOWN", "WM_LBUTTONUP", "WM_RBUTTONDOWN", "WM_RBUTTONUP",
     "WM_MBUTTONDOWN", "WM_MBUTTONUP"}
MouseInputs(messages) ==
    (OtherCodes \X {"WM_MOUSEMOVE"} \X {<<0, 0>>} \X {FALSE})
    \cup ({HC_ACTION} \X (messages \cap ButtonMessages) \X Positions \X BOOLEAN)
    \cup ({HC_ACTION} \X (messages \ ButtonMessages) \X Positions \X {FALSE})
KeyInputs(keys, flagValues) ==
    (OtherCodes \X {"WM_KEYDOWN"} \X {65} \X {0})
    \cup ({HC_ACTION} \X {"WM_KEYDOWN", "WM_KEYUP"} \X keys \X flagValues)
    \cup ({HC_ACTION} \X {"WM_SYSKEYDOWN"} \X {VK_CONTROL} \X {0})

Construct ==
    \E r \in Recorders, a, k, m \in BOOLEAN,
       cfg \in {c \in Configs : ~c.capture_ui_elements} :
        New(r, cfg, a, k, m)
ConstructFirst ==
    \E cfg \in Configs, a, k, m \in BOOLEAN : New(1, cfg, a, k, m)
StopAny == \E r \in Recorders, k, m \in BOOLEAN : Stop(r, k, m)
Consume == \E c \in Recorders : Recv(c)
ConsumerGone == \E c \in Recorders : DropReceiver(c)

\* Spec: one recorder, both callbacks on a few inputs, and the consumer.
KeyInput ==
    \E h \in hooks, i \in KeyInputs({VK_CONTROL}, {0}) :
        KeyBudget(MaxEvents)
        /\ KeyboardHookCall(h, i[1], i[2], i[3], i[4])
MouseInput ==
    \E h \in hooks,
       i \in MouseInputs({"WM_LBUTTONDOWN", "WM_MOUSEMOVE", "WM_XBUTTONDOWN"}) :
        MouseBudget(i, MaxEvents, FewMoves) /\ MouseHookCall(h, i[1], i[2], i[3], i[4])
Next ==
    \/ ConstructFirst
    \/ KeyInput
    \/ MouseInput
    \/ Consume
    \/ ConsumerGone

Spec == Init /\ [][Next]_vars

\* SpecLifecycle: construction and stop of every recorder (element capture
\* off), with one key and one click as the input of the installed hooks.
KeyOne ==
    \E h \in hooks :
        KeyBudget(WideEvents)
        /\ KeyboardHookCall(h, HC_ACTION, "WM_KEYDOWN", 65, 0)
ClickOne ==
    \E h \in hooks :
        KeyBudget(WideEvents)
        /\ MouseHookCall(h, HC_ACTION, "WM_LBUTTONDOWN", <<3, 4>>, FALSE)
NextLifecycle ==
    \/ Construct
    \/ StopAny
    \/ KeyOne
    \/ ClickOne

SpecLifecycle == Init /\ [][NextLifecycle]_vars

\* SpecMoves: the mouse callback through MaxMoves raw Moves, with clicks and
\* unrecognized messages in between.
MoveInput ==
    \E h \in hooks,
       i \in MouseInputs({"WM_RBUTTONUP", "WM_MOUSEMOVE", "WM_XBUTTONDOWN"}) :
        MouseBudget(i, WideEvents, MaxMoves)
        /\ MouseHookCall(h, i[1], i[2], i[3], i[4])
NextMoves ==
    \/ ConstructFirst
    \/ MoveInput

SpecMoves == Init /\ [][NextMoves]_vars

\* SpecRestart: recorders that record the mouse only are constructed and
\* stopped one after the other or side by side, through MaxMoves raw Moves.
MouseOnly ==
    [record_keyboard |-> FALSE, record_mouse |-> TRUE,
     capture_ui_elements |-> FALSE]
ConstructMouse == \E r \in Recorders : New(r, MouseOnly, TRUE, TRUE, TRUE)
StopMouse == \E r \in Recorders : Stop(r, TRUE, TRUE)
MoveOne ==
    \E h \in hooks :
        moveOrdinal < MaxMoves
        /\ MouseHookCall(h, HC_ACTION, "WM_MOUSEMOVE", <<3, 4>>, FALSE)
NextRestart ==
    \/ ConstructMouse
    \/ StopMouse
    \/ MoveOne

SpecRestart == Init /\ [][NextRestart]_vars

\* SpecWrap: a process whose one mouse-only recorder has seen all but
\* MovesBeforeWrap of the 2^32 Moves the counter can count; the Moves then
\* go on past the overflow.  moveOrdinal, forwardedMoves and the logs count
\* from this state on.
InitWrap ==
    /\ recorder = [r \in Recorders |->
                      IF r = 1
                      THEN [NoRecorder EXCEPT
                               !.state = "live", !.config = MouseOnly,
                               !.mouse_hook = Some(<<1, "mouse">>)]
                      ELSE NoRecorder]
    /\ hooks = {<<1, "mouse">>}
    /\ tls = setup_mouse_hook(World(EmptySlots, {}), 1, MouseOnly, TRUE).tls
    /\ MOVE_COUNTER = -MovesBeforeWrap
    /\ queue = [r \in Recorders |-> <<>>]
    /\ received = [r \in Recorders |-> <<>>]
    /\ rxAlive = [r \in Recorders |-> TRUE]
    /\ sentLog = [r \in Recorders |-> <<>>]
    /\ moveOrdinal = 0
    /\ forwardedMoves = {}
    /\ last = NoCall
    /\ desktop = NoDesktop
    /\ dlast = NoDesktopCall
    /\ GLOBAL_RENDERER = None
    /\ painted = None
    /\ present = {Root}
    /\ loc = Idle
    /\ hier = NoPath
MoveNearWrap ==
    \E h \in hooks, pt \in Positions :
        /\ ~last.panicked
        /\ moveOrdinal < MovesBeforeWrap + MaxMoves
        /\ MouseHookCall(h, HC_ACTION, "WM_MOUSEMOVE", pt, FALSE)
NextWrap == MoveNearWrap

SpecWrap == InitWrap /\ [][NextWrap]_vars

\* SpecMouse: the mouse callback on every message, position and lookup
\* outcome.
MouseInputAll ==
    \E h \in hooks, i \in MouseInputs(MouseMessages) :
        MouseBudget(i, WideEvents, SomeMoves)
        /\ MouseHookCall(h, i[1], i[2], i[3], i[4])
NextMouse ==
    \/ ConstructFirst
    \/ MouseInputAll

SpecMouse == Init /\ [][NextMouse]_vars

\* SpecKeyboard: the keyboard callback on every key code and flag value.
AllKeyCodes == {VK_SHIFT, VK_CONTROL, VK_MENU, VK_LWIN, VK_RWIN, 65}
AllKeyFlags ==
    {0, FLAG_SHIFT, FLAG_CTRL, FLAG_ALT, FLAG_SHIFT + FLAG_ALT, 128}
KeyInputAll ==
    \E h \in hooks, i \in KeyInputs(AllKeyCodes, AllKeyFlags) :
        KeyBudget(WideEvents)
        /\ KeyboardHookCall(h, i[1], i[2], i[3], i[4])
NextKeyboard ==
    \/ ConstructFirst
    \/ KeyInputAll

SpecKeyboard == Init /\ [][NextKeyboard]_vars

\* SpecDesktop: one Desktop, constructed with every outcome of the engine and
\* of the overlay, and every visualization call on it.
EngineOutcomes == {"Ok", "PlatformNotSupported", "InternalError"}
OverlayOutcomes == {"Ok", "PlatformNotSupported", "InternalError"}
ElementLists == {<<>>, <<Some(1)>>, <<None, Some(2)>>, <<Some(1), Some(2)>>}
HighlightStyles == {None, Some("Fill")}
PopupStyles == {None, Some("Error")}
Messages == {"a", "b"}
PendingPopups ==
    IF desktop.visualizer = None THEN 0
    ELSE Len(desktop.visualizer[1].renderer.popups)
PendingQuits ==
    IF desktop.visualizer = None THEN 0
    ELSE desktop.visualizer[1].renderer.quits

Create ==
    \E engine \in EngineOutcomes, overlay \in OverlayOutcomes :
        DesktopNew(engine, overlay)
Highlight ==
    \E elements \in ElementLists, style \in HighlightStyles :
        HighlightElements(elements, style)
Popup ==
    \E message \in Messages, style \in PopupStyles :
        PendingPopups < MaxPopups /\ ShowPopup(message, style)
ClearAll == ClearVisualizations
StartOverlay == StartVisualization
StopOverlay == PendingQuits < MaxQuits /\ StopVisualization
ToggleOverlay == PendingQuits < MaxQuits /\ ToggleVisualization
Repaint == \E expired \in SUBSET (1..MaxPopups) : Paint(expired)
NextDesktop ==
    \/ Create
    \/ Highlight
    \/ Popup
    \/ ClearAll
    \/ StartOverlay
    \/ StopOverlay
    \/ ToggleOverlay
    \/ UpdateReturns
    \/ Repaint

SpecDesktop == Init /\ [][NextDesktop]_vars

\* SpecDesktopLive: the same steps, with the caller going on calling while
\* it can and the message loop dispatching the paints it has; nothing
\* obliges the environment to destroy the overlay window.
CallerStep ==
    \/ Create
    \/ Highlight
    \/ Popup
    \/ ClearAll
    \/ StartOverlay
    \/ StopOverlay
    \/ ToggleOverlay
SpecDesktopLive ==
    Init /\ [][NextDesktop]_vars /\ WF_vars(CallerStep) /\ WF_vars(Repaint)

\* SpecEngine: the Desktop's engine over a renderer whose start and stop
\* can fail, with popups and clears between the lifecycle calls.
RendererOutcomes == {"Ok", "PlatformNotSupported", "InternalError"}
StartEngine == \E outcome \in RendererOutcomes : StartVisualizationWith(outcome)
StopEngine ==
    \E outcome \in RendererOutcomes :
        PendingQuits < MaxQuits /\ StopVisualizationWith(outcome)
ToggleEngine ==
    \E outcome \in RendererOutcomes :
        PendingQuits < MaxQuits /\ ToggleVisualizationWith(outcome)
NextEngine ==
    \/ Create
    \/ StartEngine
    \/ StopEngine
    \/ ToggleEngine
    \/ Popup
    \/ ClearAll

SpecEngine == Init /\ [][NextEngine]_vars

\* SpecLocator: first and all on single selectors and chains, well-formed
\* and malformed, while elements appear and vanish between the attempts.
ByRole == <<"role", "=", "button">>
ByRoleAndName == <<"role", "=", "button", "AND", "name", "=", Quote, "OK", Quote>>
ByQuotedName == <<"name", "=", Quote, "Save", "Changes", Quote>>
ByPane == <<"role", "=", "pane">>
ByNoName == <<"name", "=", "Cancel">>
Unbalanced == <<"role", "=", "button", "AND", "name", "=", Quote, "OK">>
UnknownAttribute == <<"colour", "=", "red">>
MissingOperator == <<"role", "button">>
Malformed == {Unbalanced, UnknownAttribute, MissingOperator}
WellFormed == {ByRole, ByRoleAndName, ByQuotedName, ByPane, ByNoName}
Chains ==
    {<<t>> : t \in WellFormed \cup Malformed}
    \cup {<<ByPane, ByRole>>, <<ByRole, ByRole>>, <<ByNoName, ByRole>>,
          <<ByPane, ByNoName>>, <<ByPane, Unbalanced>>}
Timeouts == {None, Some(1)}
WalkDurations == {0, MaxWalk}

First ==
    \E texts \in Chains, timeout \in Timeouts, w \in WalkDurations :
        LocatorCall("first", texts, timeout, w)
All ==
    \E texts \in Chains, timeout \in Timeouts, w \in WalkDurations :
        LocatorCall("all", texts, timeout, w)
PollAgain == \E w \in WalkDurations : Poll(w)
ElementAppears == \E n \in Nodes : Appear(n)
ElementVanishes == \E n \in Nodes : Vanish(n)
NextLocator ==
    \/ First
    \/ All
    \/ PollAgain
    \/ ElementAppears
    \/ ElementVanishes

SpecLocator == Init /\ [][NextLocator]_vars

\* SpecSelector: locators are created, and some of them resolved, while the
\* tree changes.
Locate == \E texts \in Chains : CreateLocator(texts)
ResolveCreated ==
    \E op \in {"first", "all"}, w \in WalkDurations :
        Resolve(op, Some(1), w)
NextSelector ==
    \/ Locate
    \/ ResolveCreated
    \/ PollAgain
    \/ ElementAppears
    \/ ElementVanishes

SpecSelector == Init /\ [][NextSelector]_vars

\* SpecHierarchy: the path reconstruction from every element, on every way
\* the tree may answer the parent queries.
StartPath ==
    \E element \in Elements, answers \in ParentAnswers :
        HierarchyStart(element, answers)
NextHierarchy ==
    \/ StartPath
    \/ HierarchyStep
    \/ HierarchyReturn

SpecHierarchy == Init /\ [][NextHierarchy]_vars

\* SpecOffThread: the keyboard callback on the installing thread and in the
\* context of another thread.
KeyOffThread ==
    \E h \in hooks, i \in KeyInputs(AllKeyCodes, {0, FLAG_CTRL}) :
        KeyBudget(MaxEvents)
        /\ KeyboardHookCallOffThread(h, i[1], i[2], i[3], i[4])
KeyOnThread ==
    \E h \in hooks, i \in KeyInputs(AllKeyCodes, {0, FLAG_CTRL}) :
        KeyBudget(MaxEvents)
        /\ KeyboardHookCall(h, i[1], i[2], i[3], i[4])
NextOffThread ==
    \/ ConstructFirst
    \/ KeyOnThread
    \/ KeyOffThread

SpecOffThread == Init /\ [][NextOffThread]_vars

\* ------------------------------------------------------------------ claims
IsCallback == last.op \in {"keyboard_hook_proc", "mouse_hook_proc"}
IsMouseAction == last.op = "mouse_hook_proc" /\ last.action
Last(q) == q[Len(q)]
MoveCount(q) == Len(SelectSeq(q, IsMove))

\* The kind and button a button or wheel message stands for.
WheelMessages == {"WM_MOUSEWHEEL"}
KindOf(msg) ==
    IF msg \in {"WM_LBUTTONDOWN", "WM_RBUTTONDOWN", "WM_MBUTTONDOWN"}
    THEN "Down"
    ELSE IF msg \in {"WM_LBUTTONUP", "WM_RBUTTONUP", "WM_MBUTTONUP"}
         THEN "Up"
         ELSE "Wheel"
ButtonOf(msg) ==
    IF msg \in {"WM_LBUTTONDOWN", "WM_LBUTTONUP"} THEN "Left"
    ELSE IF msg \in {"WM_RBUTTONDOWN", "WM_RBUTTONUP"} THEN "Right"
         ELSE "Middle"
\* The most recent invocation sent exactly one event, of the kind, button and
\* position of its input, and that event is the newest of its channel.
SentAsDecoded ==
    /\ Len(last.sends) = 1
    /\ LET c == last.sends[1][1]
           ev == last.sends[1][2]
       IN  /\ ev.class = "Mouse"
           /\ ev.event_type = KindOf(last.msg)
           /\ ev.button = ButtonOf(last.msg)
           /\ ev.position = last.pt[1]
           /\ rxAlive[c] => (queue[c] # <<>> /\ Last(queue[c]) = ev)

\* C1: the k-th raw Move (code = HC_ACTION) is forwarded iff k is a multiple
\* of 10, so the channel has taken one Move event per ten raw Moves.
C1_MoveDecimation ==
    /\ \A k \in 1..moveOrdinal : (k \in forwardedMoves) <=> (k % 10 = 0)
    /\ MoveCount(sentLog[1]) = moveOrdinal \div 10
C1_Witness ==
    /\ moveOrdinal = 20
    /\ forwardedMoves = {10, 20}
    /\ MoveCount(queue[1]) = 2

\* C2: an invocation with code = HC_ACTION and a button-down, button-up or
\* wheel message forwards exactly one Mouse event of that kind, button and
\* position, whatever the Move counter holds.
C2_ButtonsAndWheelNeverSampled ==
    (IsMouseAction /\ last.msg \in ButtonMessages \cup WheelMessages)
        => SentAsDecoded
C2_Witness ==
    /\ IsMouseAction
    /\ last.msg = "WM_MOUSEWHEEL"
    /\ MOVE_COUNTER = 7
    /\ Len(last.sends) = 1
    /\ Last(queue[1]).event_type = "Wheel"

C4_NoPartialInstall ==
    \A r \in Recorders :
        recorder[r].state = "failed" => ~(\E h \in hooks : h[1] = r)

\* C5: right after a successful construction the keyboard (mouse) hook is
\* installed iff record_keyboard (record_mouse); a recorder with both flags
\* false has no hook and its channel never takes an event.
C5_HooksMatchConfig ==
    /\ (last.op = "new" /\ last.result = "Ok") =>
          LET r == last.rec
              cfg == recorder[r].config
          IN  /\ recorder[r].state = "live"
              /\ (<<r, "keyboard">> \in hooks) <=> cfg.record_keyboard
              /\ (<<r, "mouse">> \in hooks) <=> cfg.record_mouse
              /\ (recorder[r].keyboard_hook # None) <=> cfg.record_keyboard
              /\ (recorder[r].mouse_hook # None) <=> cfg.record_mouse
    /\ \A r \in Recorders :
          (/\ recorder[r].state = "live"
           /\ ~recorder[r].config.record_keyboard
           /\ ~recorder[r].config.record_mouse)
              => (/\ ~(\E h \in hooks : h[1] = r)
                  /\ sentLog[r] = <<>>
                  /\ queue[r] = <<>>)
C5_Witness ==
    /\ last.op = "new"
    /\ last.result = "Ok"
    /\ recorder[last.rec].config.record_keyboard
    /\ ~recorder[last.rec].config.record_mouse
    /\ <<last.rec, "keyboard">> \in hooks
    /\ <<last.rec, "mouse">> \notin hooks

\* C6: stop() returns Ok whatever the removals did, and can be called on a
\* live recorder in every state, also right after a stop.
C6_StopAlwaysOk ==
    /\ last.op = "stop" => (last.result = "Ok" /\ ~last.panicked)
    /\ \A r \in Recorders :
          recorder[r].state = "live" => ENABLED Stop(r, TRUE, TRUE)
C6_Witness ==
    /\ last.op = "stop"
    /\ last.again
    /\ last.warns = 2
    /\ last.result = "Ok"
    /\ ~(\E h \in hooks : h[1] = last.rec)

C8_CorrelationGated ==
    last.op = "mouse_hook_proc" =>
        LET capture == recorder[last.rec].config.capture_ui_elements
            button == last.action /\ last.msg \in ButtonMessages
        IN  /\ last.lookups = (IF button /\ capture THEN 1 ELSE 0)
            /\ \A i \in 1..Len(last.sends) :
                  LET ev == last.sends[i][2]
                  IN  /\ (ev.ui_element # None)
                            <=> (last.lookups = 1 /\ last.found = Some(TRUE))
                      /\ ev.event_type \in {"Move", "Wheel"}
                            => ev.ui_element = None
                      /\ ~capture => ev.ui_element = None
C8_Witness ==
    /\ IsMouseAction
    /\ last.msg = "WM_LBUTTONUP"
    /\ recorder[last.rec].config.capture_ui_elements
    /\ last.lookups = 1
    /\ Len(last.sends) = 1
    /\ last.sends[1][2].ui_element = Some([point |-> last.pt[1]])

\* C9: a Down or Up whose lookup failed is still forwarded, with its kind,
\* button and position and no element, and the channel holds events only.
C9_FailedLookupKeepsEvent ==
    /\ (/\ IsMouseAction
        /\ last.msg \in ButtonMessages
        /\ recorder[last.rec].config.capture_ui_elements
        /\ last.found # Some(TRUE))
          => (SentAsDecoded /\ last.sends[1][2].ui_element = None)
    /\ \A c \in Recorders : \A i \in 1..Len(queue[c]) :
          queue[c][i].class \in {"Mouse", "Keyboard"}
C9_Witness ==
    /\ IsMouseAction
    /\ last.msg = "WM_RBUTTONDOWN"
    /\ last.lookups = 1
    /\ last.found = Some(FALSE)
    /\ Len(last.sends) = 1
    /\ Last(queue[1]).event_type = "Down"
    /\ Last(queue[1]).ui_element = None

\* C10: what the consumer has received followed by what waits in the
\* channel is the sequence of the events the invocations forwarded, one per
\* forwarding invocation, in invocation order and unaltered.
C10_FifoAtMostOnce ==
    \A c \in Recorders : received[c] \o queue[c] = sentLog[c]
C10_Witness ==
    /\ Len(received[1]) = 1
    /\ Len(queue[1]) = 1
    /\ received[1][1].class = "Mouse"
    /\ queue[1][1].class = "Mouse"
    /\ received[1][1] # queue[1][1]

VisualizationCalls ==
    {"highlight_elements", "show_popup", "clear_visualizations",
     "start_visualization", "stop_visualization", "toggle_visualization"}
DrawingCalls == {"highlight_elements", "show_popup", "clear_visualizations"}

\* C12: a visualization call on a Desktop without a visualizer returns Ok
\* (toggle: Ok(false)) and reaches no renderer; highlight_elements,
\* show_popup and clear_visualizations on a visualizer that is not enabled
\* return Ok and reach no renderer either.
C12_NoOpWithoutOverlay ==
    /\ (dlast.op \in VisualizationCalls /\ dlast.had = "none") =>
          /\ dlast.result = (IF dlast.op = "toggle_visualization"
                             THEN "Ok(false)" ELSE "Ok")
          /\ dlast.calls = <<>>
          /\ desktop.visualizer = None
          /\ ~desktop.pumping
    /\ (dlast.op \in DrawingCalls /\ dlast.had = "disabled") =>
          /\ dlast.result = "Ok"
          /\ dlast.calls = <<>>
          /\ ~desktop.visualizer[1].enabled
          /\ ~desktop.pumping
C12_Witness ==
    /\ dlast.op = "highlight_elements"
    /\ dlast.had = "disabled"
    /\ dlast.args[1] = <<Some(1), Some(2)>>
    /\ dlast.result = "Ok"
    /\ desktop.visualizer[1].renderer.quits = 1
    /\ desktop.visualizer[1].renderer.highlights = <<>>
C12_WitnessAbsent ==
    /\ dlast.op = "toggle_visualization"
    /\ dlast.had = "none"
    /\ dlast.result = "Ok(false)"

\* C13: Desktop::new succeeds exactly when the engine is created, whatever
\* the overlay did; a failed overlay leaves visualizer = None, and a failed
\* construction carries the engine's error.
C13_OverlayOptional ==
    dlast.op = "new" =>
        LET engine == dlast.args[1]
            overlay == dlast.args[2]
        IN  /\ engine = "Ok" =>
                  /\ dlast.result = "Ok"
                  /\ desktop.state = "live"
                  /\ (desktop.visualizer = None) <=> (overlay # "Ok")
            /\ engine # "Ok" =>
                  /\ dlast.result = engine
                  /\ desktop.state = "failed"
C13_Witness ==
    /\ dlast.op = "new"
    /\ dlast.args = <<"Ok", "InternalError">>
    /\ dlast.result = "Ok"
    /\ desktop.state = "live"
    /\ desktop.visualizer = None

\* What a selector text stands for, element by element, and the pre-order
\* of the tree, stated without the walk: an element comes before another
\* when its path of child positions from the root is the smaller one.
Expected(text) ==
    CASE text = ByRole -> {3, 4, 5}
      [] text = ByRoleAndName -> {3, 4}
      [] text = ByQuotedName -> {5}
      [] text = ByPane -> {2}
      [] OTHER -> {}
ChildPosition(n) ==
    CHOOSE i \in 1..Len(Children[Parent(n)]) : Children[Parent(n)][i] = n
RECURSIVE PathTo(_)
PathTo(n) == IF n = Root THEN <<>> ELSE Append(PathTo(Parent(n)), ChildPosition(n))
RECURSIVE PathLess(_, _)
PathLess(a, b) ==
    IF a = <<>> THEN b # <<>>
    ELSE IF b = <<>> THEN FALSE
         ELSE IF Head(a) # Head(b) THEN Head(a) < Head(b)
              ELSE PathLess(Tail(a), Tail(b))
Before(a, b) == PathLess(PathTo(a), PathTo(b))
RECURSIVE InPreOrder(_)
InPreOrder(S) ==
    IF S = {} THEN <<>>
    ELSE LET a == CHOOSE x \in S : \A y \in S \ {x} : Before(x, y)
         IN  <<a>> \o InPreOrder(S \ {a})
RECURSIVE Below(_, _)
Below(p, n) == n = p \/ (n # Root /\ Below(p, Parent(n)))
Subtree(p, tree) == {n \in tree : Below(p, n)}
RECURSIVE Within(_, _, _)
Within(parents, text, tree) ==
    IF parents = <<>> THEN <<>>
    ELSE InPreOrder(Subtree(Head(parents), tree) \cap Expected(text))
         \o Within(Tail(parents), text, tree)
Returned(op) == loc.op = op /\ loc.phase = "done"
Single == Len(loc.texts) = 1
HasMalformed == \E i \in 1..Len(loc.texts) : loc.texts[i] \in Malformed

\* C14: a call whose selector text is malformed ends with InvalidSelector
\* at once, with no walk, no element visited and no sleep; no other call
\* ends with InvalidSelector.
C14_MalformedFailsUntouched ==
    /\ (loc.op # "none" /\ HasMalformed) =>
          /\ loc.phase = "done"
          /\ loc.error = "InvalidSelector"
          /\ loc.walks = 0 /\ loc.visited = 0 /\ loc.sleeps = 0
          /\ loc.elapsed = 0
          /\ loc.result = <<>>
    /\ loc.error = "InvalidSelector" => HasMalformed
C14_Witness ==
    /\ loc.texts = <<UnknownAttribute>>
    /\ loc.error = "InvalidSelector"
    /\ loc.walks = 0
    /\ present = Nodes

\* C15: all() on a selector returns the elements of the tree its last walk
\* saw that satisfy the selector, each once, in depth-first pre-order, and a
\* repeated call on the unchanged tree returns the same sequence.
C15_AllExactInPreOrder ==
    (Returned("all") /\ Single /\ loc.error = "") =>
        /\ loc.result = InPreOrder(loc.seen \cap Expected(loc.texts[1]))
        /\ (loc.prev # None /\ ~loc.late) => loc.result = loc.prev[1]
C15_Witness ==
    /\ Returned("all")
    /\ loc.texts = <<ByRole>>
    /\ loc.result = <<4, 3, 5>>
    /\ loc.prev = Some(<<4, 3, 5>>)

\* C16: first() on a selector returns the first matching element in
\* pre-order of the first walk that finds one, visiting nothing after it;
\* it keeps polling only while the last walk matched nothing, and ends in
\* Timeout only after a walk that matched nothing.
C16_FirstMatchOrTimeout ==
    (loc.op = "first" /\ Single /\ ~HasMalformed) =>
        LET matching == loc.seen \cap Expected(loc.texts[1])
        IN  /\ (loc.phase = "done" /\ loc.error = "") =>
                  /\ matching # {}
                  /\ loc.result = <<Head(InPreOrder(matching))>>
                  /\ loc.visited =
                        Cardinality({n \in loc.seen :
                                        n = loc.result[1]
                                        \/ Before(n, loc.result[1])})
            /\ loc.phase = "sleeping" => matching = {}
            /\ loc.phase = "done" =>
                  ((loc.error = "Timeout") <=> (matching = {}))
            /\ loc.error = "Timeout" => loc.result = <<>>
C16_Witness ==
    /\ Returned("first")
    /\ loc.texts = <<ByRole>>
    /\ loc.late
    /\ loc.sleeps = 1
    /\ loc.result = <<4>>
    /\ loc.visited = 3
    /\ present = Nodes

\* C17 as stated: a first() that ends in Timeout has taken at least the
\* timeout and at most the timeout plus one polling interval.
C17_TimeoutWithinOneInterval ==
    (loc.op = "first" /\ loc.error = "Timeout") =>
        /\ loc.elapsed >= loc.timeout
        /\ loc.elapsed <= loc.timeout + PollInterval

\* C17, amended: a first() that ends in Timeout has taken at least the
\* timeout and less than the timeout plus one polling interval plus the
\* duration of its last walk; the timeout is tested once after each walk,
\* and the last walk visited the whole tree.
C17_TimeoutWithinIntervalAndWalk ==
    (loc.op = "first" /\ loc.error = "Timeout") =>
        /\ loc.elapsed >= loc.timeout
        /\ loc.elapsed < loc.timeout + PollInterval + loc.lastWalk
              \/ loc.walks = 1
        /\ loc.walks = loc.sleeps + 1
        /\ Single => loc.visited = Cardinality(loc.seen)
C17_Witness ==
    /\ Returned("first")
    /\ loc.texts = <<ByNoName>>
    /\ loc.error = "Timeout"
    /\ loc.timeout = 1
    /\ loc.walks = 2
    /\ loc.elapsed = 4
    /\ loc.visited = 5

C18_WitnessEmptyLink ==
    /\ Returned("all")
    /\ loc.texts = <<ByNoName, ByRole>>
    /\ present = Nodes
    /\ loc.result = <<>>
    /\ loc.error = ""
    /\ loc.links = 1

\* C19: the reconstruction is bounded by a maximum depth: a walk in progress
\* has pushed no more identifiers than the tree has elements, whatever the
\* parent queries answer, so the loop ends.
C19_PathWalkBounded == Len(hier.path) <= MaxElements

\* C20: a callback that finds its registration slot empty does not panic,
\* forwards nothing and passes the event to the next hook.
C20_EmptySlotGuarded ==
    (IsCallback /\ last.slotEmpty) =>
        (~last.panicked /\ last.sends = <<>> /\ last.next = 1)

RecognizedMouseMessages ==
    ButtonMessages \cup {"WM_MOUSEMOVE", "WM_MOUSEWHEEL"}
RecognizedKeyMessages == {"WM_KEYDOWN", "WM_KEYUP"}

\* C21: a callback dereferences the payload, and the mouse callback writes
\* the position cell, only in an invocation with code = HC_ACTION whose
\* message is one the callback recognizes; on any other message the payload
\* is not used.
C21_PayloadOnlyAfterDispatch ==
    /\ last.op = "mouse_hook_proc" =>
          ((last.decoded \/ last.cell # 0) =>
              (last.action /\ last.msg \in RecognizedMouseMessages))
    /\ last.op = "keyboard_hook_proc" =>
          (last.decoded =>
              (last.action /\ last.msg \in RecognizedKeyMessages))

\* C22: creating a locator, from well-formed or malformed text, walks
\* nothing, visits no element, takes no time and fails nothing: it holds the
\* parsed selectors and nothing else; a walk is only ever made by first or
\* all.
C22_CreationTouchesNothing ==
    /\ loc.op = "locator" =>
          /\ loc.walks = 0 /\ loc.visited = 0 /\ loc.links = 0
          /\ loc.sleeps = 0 /\ loc.elapsed = 0
          /\ loc.seen = {}
          /\ loc.result = <<>> /\ loc.error = ""
          /\ Len(loc.chain) = Len(loc.texts)
          /\ \A i \in 1..Len(loc.texts) :
                /\ loc.chain[i] = Parse(loc.texts[i])
                /\ loc.chain[i].valid <=> loc.texts[i] \notin Malformed
    /\ (loc.walks > 0 \/ loc.visited > 0) => loc.op \in {"first", "all"}
C22_Witness ==
    /\ loc.op = "locator"
    /\ loc.texts = <<ByPane, ByRole>>
    /\ present = Nodes
    /\ loc.chain[2].valid
    /\ loc.walks = 0

LifecycleOps ==
    {"start_visualization", "stop_visualization", "toggle_visualization"}

\* C23: start on an enabled engine and stop on a disabled one return Ok and
\* ask the renderer nothing; the renderer is asked to start only when it was
\* last asked to stop or never asked, and to stop only when it was last
\* asked to start, so its start and stop alternate, beginning with start.
C23_StartStopAlternate ==
    /\ (dlast.op = "start_visualization" /\ dlast.had = "enabled") =>
          (dlast.result = "Ok" /\ dlast.calls = <<>>)
    /\ (dlast.op = "stop_visualization" /\ dlast.had = "disabled") =>
          (dlast.result = "Ok" /\ dlast.calls = <<>>)
    /\ Len(LifecycleCalls(dlast.calls)) <= 1
    /\ LifecycleCalls(dlast.calls) = <<"start">> =>
          dlast.prior \in {"none", "stop"}
    /\ LifecycleCalls(dlast.calls) = <<"stop">> => dlast.prior = "start"
    /\ (dlast.op \in LifecycleOps /\ dlast.had # "none") =>
          LET e == desktop.visualizer[1]
          IN  /\ dlast.op = "start_visualization" => e.enabled
              /\ dlast.op = "stop_visualization" => ~e.enabled
              /\ dlast.op = "toggle_visualization" =>
                    /\ e.enabled <=> dlast.had = "disabled"
                    /\ Len(LifecycleCalls(dlast.calls)) = 1
              /\ e.enabled <=> dlast.lifecycle = "start"
C23_Witness ==
    /\ dlast.op = "start_visualization"
    /\ dlast.had = "enabled"
    /\ dlast.calls = <<>>
    /\ dlast.prior = "start"
    /\ desktop.visualizer[1].renderer.quits = 1
    /\ desktop.visualizer[1].enabled

\* C24: a keyboard invocation with code = HC_ACTION forwards exactly one
\* Keyboard event when the message is key-down or key-up, with the key code
\* of the payload, is_key_down true iff the message is key-down, and each
\* modifier true iff its flag bit (ctrl 0x8, alt 0x20, shift 0x1) is set or
\* the key is that modifier's key (17, 18, 16; meta: 91 or 92, from the key
\* alone); on any other message it forwards nothing.
C24_KeyboardEventDecoded ==
    (last.op = "keyboard_hook_proc" /\ last.action) =>
        IF last.msg \in RecognizedKeyMessages
        THEN /\ Len(last.sends) = 1
             /\ LET c == last.sends[1][1]
                    ev == last.sends[1][2]
                    k == last.key[1]
                    f == last.flags[1]
                IN  /\ ev.class = "Keyboard"
                    /\ ev.key_code = k
                    /\ ev.is_key_down <=> last.msg = "WM_KEYDOWN"
                    /\ ev.ctrl_pressed <=> ((f \div 8) % 2 = 1 \/ k = 17)
                    /\ ev.alt_pressed <=> ((f \div 32) % 2 = 1 \/ k = 18)
                    /\ ev.shift_pressed <=> (f % 2 = 1 \/ k = 16)
                    /\ ev.win_pressed <=> k \in {91, 92}
                    /\ Last(queue[c]) = ev
        ELSE last.sends = <<>>
C24_Witness ==
    /\ last.op = "keyboard_hook_proc"
    /\ last.msg = "WM_KEYUP"
    /\ last.key = Some(18)
    /\ last.flags = Some(33)
    /\ Len(last.sends) = 1
    /\ ~last.sends[1][2].is_key_down
    /\ last.sends[1][2].alt_pressed
    /\ last.sends[1][2].shift_pressed
    /\ ~last.sends[1][2].ctrl_pressed

\* C25: while a hook is installed, the slots its callback reads hold what
\* the recorder that installed it put there before the installation: the
\* keyboard slot its sender, the mouse slots its sender, automation handle,
\* position cell and capture flag; they are never empty and never another
\* recorder's.
C25_SlotsFixedWhileInstalled ==
    \A h \in hooks :
        LET r == h[1]
        IN  /\ h[2] = "keyboard" => tls.KB_EVENT_TX = r
            /\ h[2] = "mouse" =>
                  /\ tls.EVENT_TX = r
                  /\ tls.AUTOMATION = r
                  /\ tls.LAST_MOUSE_POS = r
                  /\ recorder[r].state = "live" =>
                        tls.CAPTURE_UI_ELEMENTS =
                            recorder[r].config.capture_ui_elements

\* The holders of a sender of channel c: the recorder object (its event_tx
\* field) while it exists, and the slots that hold a clone.  The channel is
\* closed to its consumer once no sender is left.
SendersIn(recs, slots, c) ==
    (IF recs[c].state = "live" THEN {"recorder"} ELSE {})
    \cup (IF slots.KB_EVENT_TX = c THEN {"KB_EVENT_TX"} ELSE {})
    \cup (IF slots.EVENT_TX = c THEN {"EVENT_TX"} ELSE {})
Senders(c) == SendersIn(recorder, tls, c)
HandlesOf(rec) ==
    (IF rec.keyboard_hook # None THEN {rec.keyboard_hook[1]} ELSE {})
    \cup (IF rec.mouse_hook # None THEN {rec.mouse_hook[1]} ELSE {})

\* C26: a step of stop() on recorder r asks the OS once per handle that is
\* set to remove that hook and changes nothing else: the recorder, its two
\* handles and its sender, the slots, the channels and the Move counter are
\* as before, only hooks of r's handles leave the OS table, and the channel
\* keeps a sender; a stop after a stop makes the same attempts again.
C26_StopOnlyUnhooks ==
    [][last'.op = "stop" =>
          LET r == last'.rec
          IN  /\ UNCHANGED <<recorder, tls, queue, received, rxAlive,
                             sentLog, MOVE_COUNTER>>
              /\ hooks' \subseteq hooks
              /\ (hooks \ hooks') \subseteq HandlesOf(recorder[r])
              /\ last'.attempts = Cardinality(HandlesOf(recorder'[r]))
              /\ last'.warns <= last'.attempts
              /\ "recorder" \in SendersIn(recorder', tls', r)
              /\ SendersIn(recorder', tls', r) = SendersIn(recorder, tls, r)
              /\ last'.result = "Ok"]_vars
C26_Witness ==
    /\ last.op = "stop"
    /\ last.again
    /\ last.attempts = 2
    /\ recorder[last.rec].keyboard_hook = Some(<<last.rec, "keyboard">>)
    /\ recorder[last.rec].mouse_hook = Some(<<last.rec, "mouse">>)
    /\ Senders(last.rec) = {"recorder", "KB_EVENT_TX", "EVENT_TX"}
    /\ hooks = {}
    /\ rxAlive[last.rec]

\* C27: the renderer the window procedure paints from holds the highlights
\* and popups of the engine's renderer: whenever the Desktop has a
\* visualizer, GLOBAL_RENDERER is set and its two lists equal the lists of
\* the renderer the engine draws into.
C27_PaintsEngineState ==
    desktop.visualizer # None =>
        /\ GLOBAL_RENDERER # None
        /\ GLOBAL_RENDERER[1].highlights =
              desktop.visualizer[1].renderer.highlights
        /\ GLOBAL_RENDERER[1].popups = desktop.visualizer[1].renderer.popups

\* C28: a highlight_elements call that has entered the renderer's update
\* eventually returns, leaving the renderer free for the calls that follow.
C28_HighlightReturns ==
    (dlast.op = "highlight_elements" /\ desktop.pumping)
        ~> ~desktop.pumping

\* C29: every event a callback forwards goes to the channel of the recorder
\* whose hook fired, however many recorders were constructed on the thread.
C29_EventsReachOwnChannel ==
    IsCallback =>
        \A i \in 1..Len(last.sends) : last.sends[i][1] = last.rec

\* C30: in every state of a Desktop with a visualizer, however start, stop,
\* toggle, highlight_elements, show_popup and clear were called, the
\* engine's enabled flag equals the active flag of its renderer.
C30_EnabledIsActive ==
    desktop.visualizer # None =>
        (desktop.visualizer[1].enabled
            <=> desktop.visualizer[1].renderer.active)
C30_Witness ==
    /\ dlast.op = "toggle_visualization"
    /\ dlast.result = "Ok(true)"
    /\ dlast.prior = "stop"
    /\ desktop.visualizer[1].enabled
    /\ desktop.visualizer[1].renderer.active
    /\ desktop.visualizer[1].renderer.popups # <<>>
    /\ desktop.visualizer[1].renderer.quits = 1


\* C31: OverlayEngine::toggle flips the enabled flag and returns the new
\* value of is_enabled(); toggling twice restores the enabled flag the
\* engine had; a newly constructed engine is disabled, so the first toggle
\* of an engine that was never started returns true.
C31_ToggleFlips ==
    /\ ~Overlay_is_enabled(NewOverlayEngine)
    /\ Overlay_toggle(NewOverlayEngine).result = "Ok(true)"
    /\ desktop.visualizer # None =>
          LET e == desktop.visualizer[1]
              once == Overlay_toggle(e)
              twice == Overlay_toggle(once.obj)
          IN  /\ Overlay_is_enabled(once.obj) = ~Overlay_is_enabled(e)
              /\ Overlay_is_enabled(twice.obj) = Overlay_is_enabled(e)
              /\ once.result = IF Overlay_is_enabled(e) THEN "Ok(false)"
                               ELSE "Ok(true)"
    /\ (dlast.op = "new" /\ desktop.visualizer # None)
          => ~Overlay_is_enabled(desktop.visualizer[1])
    /\ (dlast.op = "toggle_visualization" /\ dlast.had # "none") =>
          /\ Had(desktop) # dlast.had
          /\ dlast.result = IF Overlay_is_enabled(desktop.visualizer[1])
                            THEN "Ok(true)" ELSE "Ok(false)"
          /\ dlast.prior = "none" => dlast.result = "Ok(true)"

\* The first toggle of an engine that was never started enabled it.
C31_Witness ==
    /\ dlast.op = "toggle_visualization"
    /\ dlast.had = "disabled"
    /\ dlast.prior = "none"
    /\ dlast.result = "Ok(true)"
    /\ Overlay_is_enabled(desktop.visualizer[1])


\* C33: on an enabled engine highlight_elements replaces the previous
\* highlights: the renderer's highlight list then holds exactly one entry
\* per element of the argument whose bounds query succeeded, in argument
\* order, all with the given style or with the default border when none is
\* given; elements whose bounds query fails are skipped, and the call
\* reports no error.
Highlighted(elements, style) ==
    LET found == SelectSeq(elements, LAMBDA b : b # None)
    IN  [i \in 1..Len(found) |->
            <<found[i][1], StyleOr(style, DefaultHighlightStyle)>>]
C33_HighlightReplaces ==
    (dlast.op = "highlight_elements" /\ dlast.had = "enabled") =>
        /\ desktop.visualizer[1].renderer.highlights
               = Highlighted(dlast.args[1], dlast.args[2])
        /\ dlast.result \in {"", "Ok"}
        /\ ~desktop.pumping => dlast.result = "Ok"

\* A highlight call with an element whose bounds query failed and one whose
\* query succeeded returned, on a renderer that held two other highlights.
C33_Witness ==
    /\ dlast.op = "highlight_elements"
    /\ dlast.had = "enabled"
    /\ dlast.held.highlights = 2
    /\ dlast.args = <<(<<None, Some(2)>>), None>>
    /\ dlast.result = "Ok"
    /\ desktop.visualizer[1].renderer.highlights
           = <<(<<2, DefaultHighlightStyle>>)>>


\* C34: on an enabled engine highlight_elements starts with the renderer's
\* clear, which empties the popups as well as the highlights: no popup
\* shown before the call is pending after it.
C34_HighlightDropsPopups ==
    (dlast.op = "highlight_elements" /\ dlast.had = "enabled") =>
        /\ dlast.calls # <<>>
        /\ Head(dlast.calls) = "clear"
        /\ desktop.visualizer[1].renderer.popups = <<>>
        /\ \A i \in DOMAIN desktop.visualizer[1].renderer.highlights :
              desktop.visualizer[1].renderer.highlights[i][1]
                  \in {b[1] : b \in {dlast.args[1][j] :
                                        j \in DOMAIN dlast.args[1]}
                                    \ {None}}

\* A highlight call found pending popups and left none.
C34_Witness ==
    /\ dlast.op = "highlight_elements"
    /\ dlast.had = "enabled"
    /\ dlast.held.popups > 0
    /\ desktop.visualizer[1].renderer.popups = <<>>


\* C32: when the renderer's start or stop fails, the engine's start, stop
\* or toggle that asked it returns that error and leaves the enabled flag
\* as it was; when the renderer is not asked, or succeeds, the call
\* succeeds.
C32_RendererErrorKeepsFlag ==
    (/\ dlast.op \in LifecycleOps
     /\ dlast.had # "none"
     /\ Len(dlast.args) = 1) =>
        IF dlast.calls # <<>> /\ dlast.args[1] # "Ok"
        THEN /\ dlast.result = dlast.args[1]
             /\ Had(desktop) = dlast.had
        ELSE dlast.result \in {"Ok", "Ok(true)", "Ok(false)"}

\* A toggle of an enabled engine whose renderer failed to stop returned the
\* renderer's error and left the engine enabled.
C32_Witness ==
    /\ dlast.op = "toggle_visualization"
    /\ dlast.had = "enabled"
    /\ dlast.calls = <<"stop">>
    /\ dlast.args = <<"InternalError">>
    /\ dlast.result = "InternalError"
    /\ Had(desktop) = "enabled"


\* C37: after a mouse hook invocation with code = HC_ACTION the last mouse
\* position of the recorder whose hook was invoked is the position of that
\* invocation, whether or not the invocation forwarded an event, and the
\* position is written before the message code is examined.
C37_LastPositionFollows ==
    (last.op = "mouse_hook_proc" /\ last.action) =>
        /\ last.decoded
        /\ last.cell = last.rec
        /\ recorder[last.rec].last_mouse_pos = last.pt


\* C35: the Move counter is process-wide and never reset: it counts the raw
\* Moves since process start whatever recorders were stopped or constructed
\* in between, so the forwarded Moves are those whose ordinal since process
\* start is a multiple of 10, and a stop or a construction leaves the
\* counter as it found it.
RECURSIVE MovesSent(_)
MovesSent(n) ==
    IF n = 0 THEN 0 ELSE MoveCount(sentLog[n]) + MovesSent(n - 1)
C35_CounterNeverReset ==
    /\ MOVE_COUNTER = moveOrdinal
    /\ \A k \in 1..moveOrdinal :
          (k \in forwardedMoves) <=> (k % MOVE_SAMPLE = 0)
    /\ MovesSent(MaxRecorders) = moveOrdinal \div MOVE_SAMPLE

\* The first recorder's hook saw Moves before the second recorder was
\* constructed and is removed, and the one Move forwarded, to the second
\* recorder, is the tenth since process start.
C35_Witness ==
    /\ recorder[1].last_mouse_pos # None
    /\ <<1, "mouse">> \notin hooks
    /\ <<2, "mouse">> \in hooks
    /\ sentLog[1] = <<>>
    /\ MoveCount(sentLog[2]) = 1
    /\ forwardedMoves = {MOVE_SAMPLE}
    /\ moveOrdinal = MOVE_SAMPLE
    /\ MOVE_COUNTER = MOVE_SAMPLE


\* C36: the every-10th rule survives the wrap-around of the 32-bit Move
\* counter: the Move that arrives when the counter holds 2^32 - 1 is
\* processed without error, and two consecutive forwarded Moves are exactly
\* 10 raw Moves apart, across the wrap as before it.
C36_DecimationSurvivesWrap ==
    /\ (last.op = "mouse_hook_proc" /\ last.msg = "WM_MOUSEMOVE")
          => (~last.panicked /\ last.next = 1)
    /\ \A j, k \in forwardedMoves :
          (j < k /\ \A n \in forwardedMoves : ~(j < n /\ n < k))
              => k - j = MOVE_SAMPLE

\* The two outcomes at the overflow, one per build profile.
WrapPanics ==
    /\ last.op = "mouse_hook_proc"
    /\ last.panicked
    /\ MOVE_COUNTER = -1
WrapForwardsEarly ==
    /\ MOVE_COUNTER = 0
    /\ moveOrdinal = MovesBeforeWrap
    /\ moveOrdinal \in forwardedMoves
    /\ (moveOrdinal - MOVE_SAMPLE) \notin forwardedMoves

=============================================================================
